---- MODULE Spec2Model ----
(***************************************************************************)
(* State machine of lazy-dispatchrr: the key-event loop of src/event.rs    *)
(* over the application state of src/app.rs.                               *)
(*                                                                         *)
(* Representation.  A Rust String is a sequence of tokens (TLA+ strings):  *)
(* a typed character is a one-character token, a fixed piece of text of a  *)
(* format! is one token.  Concatenation is \o, so format!, join and push   *)
(* are computed, not assumed.  Option<T> is <<>> (None) or <<x>> (Some).   *)
(* Vec indices are 0-based as in the source; Vec element i is seq[i + 1].  *)
(***************************************************************************)
EXTENDS Integers, Sequences, FiniteSets, TLC

VARIABLES data, ui, disk, loop, world

vars == <<data, ui, disk, loop, world>>

--------------------------------------------------------------------------
(* Bounds of the model *)

\* add_repo is offered while fewer than MaxRepos repositories are listed
MaxRepos == 2
\* longest text typed into an add-repo buffer
MaxBuf == 1
\* longest search query typed
MaxQuery == 1
\* longest value typed into a string input field
MaxValue == 1
\* most presets kept for a repository in the persistent store
MaxReplays == 2
\* longest backing collection and longest query handed to the filter alone
MaxLabels == 3
MaxFilterQuery == 2

--------------------------------------------------------------------------
(* Strings, options, vectors *)

Lit(t) == <<t>>
None == <<>>
Some(x) == <<x>>
IsSome(o) == o # <<>>
IsNone(o) == o = <<>>
Unwrap(o) == o[1]

\* Vec::get
Get(v, i) == IF i >= 0 /\ i < Len(v) THEN Some(v[i + 1]) ELSE None

\* (0..n).collect()
Range0(n) == [k \in 1..n |-> k - 1]

\* String::pop / Vec::pop (the popped element is dropped)
Pop(s) == IF s = <<>> THEN s ELSE SubSeq(s, 1, Len(s) - 1)

\* Vec::remove(i)
RemoveAt(v, i) == SubSeq(v, 1, i) \o SubSeq(v, i + 2, Len(v))

RECURSIVE Join(_, _)
\* [String]::join(sep)
Join(parts, sep) ==
  IF parts = <<>> THEN <<>>
  ELSE IF Len(parts) = 1 THEN parts[1]
  ELSE parts[1] \o sep \o Join(Tail(parts), sep)

\* iter().position(|o| o == x)
Position(v, x) ==
  IF \E k \in 1..Len(v) : v[k] = x
  THEN Some((CHOOSE k \in 1..Len(v) : v[k] = x /\ \A j \in 1..(k - 1) : v[j] # x) - 1)
  ELSE None

\* s contains t as a contiguous piece
Contains(s, t) ==
  \E k \in 0..(Len(s) - Len(t)) : SubSeq(s, k + 1, k + Len(t)) = t

\* str::splitn(2, '/')
Splitn2(s) ==
  LET p == Position(s, "/") IN
  IF IsNone(p) THEN <<s>>
  ELSE <<SubSeq(s, 1, Unwrap(p)), SubSeq(s, Unwrap(p) + 2, Len(s))>>

Ok == [ok |-> TRUE, e |-> <<>>]
Err(e) == [ok |-> FALSE, e |-> e]

--------------------------------------------------------------------------
(* Fuzzy matching (SkimMatcherV2::fuzzy_match, used by update_search_filter):
   None unless the query is a subsequence of the label; otherwise a score
   that grows with the query length, prefers a contiguous occurrence and an
   early start. *)

RECURSIVE IsSubseq(_, _)
IsSubseq(q, s) ==
  IF q = <<>> THEN TRUE
  ELSE IF s = <<>> THEN FALSE
  ELSE IF Head(q) = Head(s) THEN IsSubseq(Tail(q), Tail(s))
  ELSE IsSubseq(q, Tail(s))

fuzzy_match(label, query) ==
  IF ~IsSubseq(query, label) THEN None
  ELSE LET start == Unwrap(Position(label, Head(query)))
       IN  Some(16 * Len(query)
                + (IF Contains(label, query) THEN 8 ELSE 0)
                - start)

RECURSIVE InsertByScore(_, _)
\* stable insertion for sort_by(|a, b| b.1.cmp(&a.1)): descending score,
\* equal scores keep their order
InsertByScore(sorted, p) ==
  IF sorted = <<>> THEN <<p>>
  ELSE IF Head(sorted)[2] >= p[2] THEN <<Head(sorted)>> \o InsertByScore(Tail(sorted), p)
  ELSE <<p>> \o sorted

RECURSIVE SortByScore(_)
SortByScore(scored) ==
  IF scored = <<>> THEN <<>>
  ELSE InsertByScore(SortByScore(SubSeq(scored, 1, Len(scored) - 1)), scored[Len(scored)])

\* the filter without the sort: the matches stay in backing order
FilterIndices_unsorted(labels, query) ==
  IF query = <<>> THEN Range0(Len(labels))
  ELSE SelectSeq(Range0(Len(labels)), LAMBDA i : IsSome(fuzzy_match(labels[i + 1], query)))

\* the filter of update_search_filter over one backing collection of labels
FilterIndices(labels, query) ==
  IF query = <<>> THEN Range0(Len(labels))
  ELSE LET idx == Range0(Len(labels))
           matched == SelectSeq(idx, LAMBDA i : IsSome(fuzzy_match(labels[i + 1], query)))
           scored == [k \in 1..Len(matched) |->
                        <<matched[k], Unwrap(fuzzy_match(labels[matched[k] + 1], query))>>]
           sorted == SortByScore(scored)
       IN  [k \in 1..Len(sorted) |-> sorted[k][1]]

--------------------------------------------------------------------------
(* The outside world: what the collaborators can answer.  Every remote call
   may fail; the persistent store may refuse a write. *)

TypeChars == {"a"}

BranchA == <<"b", "a">>
BranchB == <<"b">>
BranchC == <<"a">>
WorkflowA == <<"a">>
WorkflowB == <<"b", "a">>
WorkflowC == <<"b">>
RepoAB == <<"a", "/", "b">>

\* the workflow_dispatch inputs a fetched workflow file can declare
DeclaredInputs ==
  << [name |-> Lit("env"), description |-> <<>>, input_type |-> "choice", required |-> TRUE,
      default_value |-> Lit("dev"), options |-> <<Lit("dev"), Lit("prod")>>],
     [name |-> Lit("tag"), description |-> Lit("release tag"), input_type |-> "string",
      required |-> FALSE, default_value |-> <<>>, options |-> <<>>] >>

DeclaredFlag ==
  << [name |-> Lit("dry"), description |-> <<>>, input_type |-> "boolean", required |-> FALSE,
      default_value |-> <<"f", "a", "l", "s", "e">>, options |-> <<>>] >>

DeclaredTag ==
  << [name |-> Lit("tag"), description |-> <<>>, input_type |-> "string", required |-> FALSE,
      default_value |-> <<>>, options |-> <<>>] >>

\* workflow_dispatch inputs of the workflows the inputs popup is checked on:
\* a choice with three options and no default, a default among the options
\* or a default outside them; a boolean without default or with one of the
\* two literals; a string without default or with one
Options3 == <<Lit("dev"), Lit("staging"), Lit("prod")>>

ChoiceDecls ==
  { [name |-> Lit("env"), description |-> <<>>, input_type |-> "choice", required |-> TRUE,
     default_value |-> d, options |-> Options3] : d \in {<<>>, Lit("staging"), Lit("qa")} }

FlagDecls ==
  { [name |-> Lit("dry"), description |-> <<>>, input_type |-> "boolean", required |-> FALSE,
     default_value |-> d, options |-> <<>>]
      : d \in {<<>>, <<"t", "r", "u", "e">>, <<"f", "a", "l", "s", "e">>} }

TextDecls ==
  { [name |-> Lit("version"), description |-> <<>>, input_type |-> "string", required |-> FALSE,
     default_value |-> d, options |-> <<>>] : d \in {<<>>, <<"1", ".", "2">>} }

InputsDeclared ==
  {<<c>> : c \in ChoiceDecls} \cup {<<b>> : b \in FlagDecls}
    \cup {<<c, t>> : c \in ChoiceDecls, t \in TextDecls}
    \cup {<<t, b>> : t \in TextDecls, b \in FlagDecls}

RepoDetailsFailed ==
  [ok |-> FALSE, e |-> Lit("gh cli error: not found"), branches |-> <<>>, workflows |-> <<>>]
RepoDetails(branches, workflows) ==
  [ok |-> TRUE, e |-> <<>>, branches |-> branches, workflows |-> workflows]

BranchWorkflowsFailed ==
  [ok |-> FALSE, e |-> Lit("gh cli error: timeout"), workflows |-> <<>>]
BranchWorkflows(workflows) == [ok |-> TRUE, e |-> <<>>, workflows |-> workflows]

WorkflowInputsFailed ==
  [ok |-> FALSE, e |-> Lit("Failed to fetch workflow file: 404"), declared |-> <<>>]
WorkflowInputs(declared) == [ok |-> TRUE, e |-> <<>>, declared |-> declared]

Replay1 ==
  [workflow |-> WorkflowC,
   description |-> Lit("env") \o Lit("=") \o Lit("prod") \o Lit(", ")
                     \o Lit("tag") \o Lit("=") \o <<"a">>,
   inputs |-> <<[name |-> Lit("env"), value |-> Lit("prod")],
                [name |-> Lit("tag"), value |-> <<"a">>]>>]

\* A session profile bounds one run of the program: the config file it
\* starts from, what the operator does (features), and what the remote
\* holds.  Every profile navigates, activates and opens the help.
\*   add       adds repositories
\*   search    filters the three lists
\*   dispatch  opens the inputs, requests and confirms dispatches, watches logs
\*   edit      edits the input fields
\*   replays   saves, runs and deletes presets
\* The profile "inputs" is the session of SpecInputs: the inputs popup over
\* the fields of one workflow, edited, stored and dispatched.
\* The profile "switch" is the session of SpecSwitch: a repository with two
\* workflows whose files declare different inputs.
Worlds == {"add", "search", "dispatch", "edit", "replays"}

Profile(w) ==
  CASE w = "add" ->
         [configs |-> { <<>> },
          features |-> {"add"},
          repoDetails |-> {RepoDetailsFailed, RepoDetails(<<BranchB>>, <<WorkflowA>>)},
          branchWorkflows |-> {BranchWorkflowsFailed, BranchWorkflows(<<WorkflowA>>)},
          workflowInputs |-> {WorkflowInputsFailed, WorkflowInputs(<<>>)}]
    [] w = "search" ->
         [configs |-> { <<[name |-> RepoAB, replays |-> <<>>],
                          [name |-> <<"b">>, replays |-> <<>>]>> },
          features |-> {"search"},
          repoDetails |-> {RepoDetailsFailed, RepoDetails(<<>>, <<>>),
                           RepoDetails(<<BranchA, BranchC>>, <<WorkflowB, WorkflowA>>)},
          branchWorkflows |-> {BranchWorkflowsFailed, BranchWorkflows(<<WorkflowC>>)},
          workflowInputs |-> {WorkflowInputsFailed, WorkflowInputs(<<>>)}]
    [] w = "dispatch" ->
         [configs |-> { <<[name |-> RepoAB, replays |-> <<>>]>> },
          features |-> {"dispatch"},
          repoDetails |-> {RepoDetails(<<>>, <<WorkflowA>>),
                           RepoDetails(<<BranchB>>, <<WorkflowA>>)},
          branchWorkflows |-> {BranchWorkflows(<<WorkflowA>>)},
          workflowInputs |-> {WorkflowInputsFailed, WorkflowInputs(<<>>),
                              WorkflowInputs(DeclaredInputs)}]
    [] w = "edit" ->
         [configs |-> { <<[name |-> RepoAB, replays |-> <<>>]>> },
          features |-> {"edit"},
          repoDetails |-> {RepoDetailsFailed, RepoDetails(<<BranchB>>, <<WorkflowA>>)},
          branchWorkflows |-> {BranchWorkflowsFailed, BranchWorkflows(<<WorkflowA>>)},
          workflowInputs |-> {WorkflowInputsFailed, WorkflowInputs(DeclaredInputs),
                              WorkflowInputs(DeclaredFlag)}]
    [] w = "replays" ->
         [configs |-> { <<[name |-> RepoAB, replays |-> <<Replay1>>]>> },
          features |-> {"replays", "store"},
          repoDetails |-> {RepoDetails(<<BranchB>>, <<WorkflowA>>)},
          branchWorkflows |-> {BranchWorkflows(<<WorkflowA>>)},
          workflowInputs |-> {WorkflowInputs(DeclaredInputs),
                              WorkflowInputs(DeclaredTag)}]
    [] w = "inputs" ->
         [configs |-> { <<[name |-> RepoAB, replays |-> <<>>]>> },
          features |-> {"edit", "store", "dispatch"},
          repoDetails |-> {RepoDetails(<<BranchB>>, <<WorkflowA>>)},
          branchWorkflows |-> {BranchWorkflows(<<WorkflowA>>)},
          workflowInputs |-> {WorkflowInputs(d) : d \in InputsDeclared}]
    [] w = "switch" ->
         [configs |-> { <<[name |-> RepoAB, replays |-> <<>>]>> },
          features |-> {"dispatch"},
          repoDetails |-> {RepoDetails(<<BranchB>>, <<WorkflowA, WorkflowC>>)},
          branchWorkflows |-> {BranchWorkflows(<<WorkflowA, WorkflowC>>)},
          workflowInputs |-> {WorkflowInputs(DeclaredInputs), WorkflowInputs(DeclaredFlag)}]

\* answers of GitHubService::fetch_repo_details, fetch_branch_workflows and
\* of the download and parse steps of fetch_workflow_inputs
RepoDetailsAnswers(w) == Profile(w).repoDetails
BranchWorkflowsAnswers(w) == Profile(w).branchWorkflows
WorkflowInputsAnswers(w) == Profile(w).workflowInputs

\* contents of the config file when the program starts
InitialConfigs(w) == Profile(w).configs

\* the events a profile leaves out
LeftOut(w, handler, r) ==
  LET f == Profile(w).features IN
  \/ "add" \notin f /\ handler = "base" /\ r.arm = "a"
  \/ "search" \notin f /\ handler = "base" /\ r.arm = "/"
  \/ "replays" \notin f /\ handler = "base" /\ r.arm = "r"
  \/ "dispatch" \notin f /\ r.req
  \/ "store" \notin f /\ handler = "inputs" /\ r.arm = "S"
  \/ "edit" \notin f /\ handler = "inputs" /\ r.arm \in {"Enter", "Char", "Backspace", "Tab", "BackTab"}

\* outcome of running `gh workflow run ...`
GhRunAnswers ==
  { [ok |-> TRUE, e |-> <<>>],
    [ok |-> FALSE, e |-> Lit("HTTP 422")] }

\* answers of GitHubService::get_latest_run_logs: the run lookup exhausts its
\* retries, `gh` cannot be spawned, or the logs of the run are returned
RunLogsAnswers ==
  { [ok |-> FALSE, run_id |-> 0,
     e |-> Lit("Could not find workflow run after dispatch. Try pressing 'l' again in a few seconds.")],
    [ok |-> FALSE, run_id |-> 0, e |-> Lit("No such file or directory (os error 2)")],
    [ok |-> TRUE, run_id |-> 7, e |-> <<>>] }

\* outcome of save_config and of spawning the browser opener
IoAnswers ==
  { [ok |-> TRUE, e |-> <<>>],
    [ok |-> FALSE, e |-> Lit("io error")] }

--------------------------------------------------------------------------
(* src/service/github.rs and src/config.rs *)

\* the display line and the InputField built for one declared input
InputDisplayLine(d) ==
  d.name \o Lit(":")
    \o (IF d.description # <<>> THEN Lit(" ") \o d.description ELSE <<>>)
    \o Lit(" [type: ") \o Lit(d.input_type) \o Lit("]")
    \o Lit(" [required: ") \o Lit(IF d.required THEN "true" ELSE "false") \o Lit("]")
    \o (IF d.default_value # <<>> THEN Lit(" [default: ") \o d.default_value \o Lit("]") ELSE <<>>)
    \o (IF d.options # <<>> THEN Lit(" [options: ") \o Join(d.options, Lit(", ")) \o Lit("]") ELSE <<>>)

InputFieldOf(d) ==
  [name |-> d.name, description |-> d.description, input_type |-> d.input_type,
   required |-> d.required, default_value |-> d.default_value, options |-> d.options,
   value |-> d.default_value]

fetch_workflow_inputs(answer) ==
  IF ~answer.ok THEN [ok |-> FALSE, e |-> answer.e, inputs_list |-> <<>>, fields |-> <<>>]
  ELSE [ok |-> TRUE, e |-> <<>>,
        inputs_list |-> [k \in 1..Len(answer.declared) |-> InputDisplayLine(answer.declared[k])],
        fields |-> [k \in 1..Len(answer.declared) |-> InputFieldOf(answer.declared[k])]]

RECURSIVE FieldArgs(_)
\* the -f name=value arguments: one pair per field whose value is non-empty
FieldArgs(fields) ==
  IF fields = <<>> THEN <<>>
  ELSE (IF Head(fields).value # <<>>
        THEN <<Lit("-f"), Head(fields).name \o Lit("=") \o Head(fields).value>>
        ELSE <<>>) \o FieldArgs(Tail(fields))

WorkflowRunArgs(workflow_filename, repo_name, branch) ==
  <<Lit("workflow"), Lit("run"), workflow_filename, Lit("--repo"), repo_name,
    Lit("--ref"), branch>>

PreviewOf(args) == Lit("gh ") \o Join(args, Lit(" "))

\* dispatch_workflow without the test for an empty value: every field is
\* passed to gh
dispatch_workflow_every_field(repo_name, branch, workflow_filename, inputs, answer) ==
  LET pairs == [k \in 1..Len(inputs) |->
                  <<Lit("-f"), inputs[k].name \o Lit("=") \o inputs[k].value>>]
      args == WorkflowRunArgs(workflow_filename, repo_name, branch) \o Join(pairs, <<>>)
  IN  [ran |-> args,
       ok |-> answer.ok,
       e |-> IF answer.ok THEN <<>> ELSE Lit("Workflow dispatch failed: ") \o answer.e,
       preview |-> PreviewOf(args)]

\* GitHubService::dispatch_workflow: builds the arguments, runs gh
dispatch_workflow(repo_name, branch, workflow_filename, inputs, answer) ==
  LET args == WorkflowRunArgs(workflow_filename, repo_name, branch) \o FieldArgs(inputs)
  IN  [ran |-> args,
       ok |-> answer.ok,
       e |-> IF answer.ok THEN <<>> ELSE Lit("Workflow dispatch failed: ") \o answer.e,
       preview |-> PreviewOf(args)]

\* load_config: the file as last written
load_config(s) == s.disk

save_config(s, config, io) ==
  IF io.ok THEN [s |-> [s EXCEPT !.disk = config], res |-> Ok]
  ELSE [s |-> s, res |-> Err(io.e)]

\* find(|rc| rc.name == name).map(|rc| rc.replays.clone()).unwrap_or_default()
ReplaysFor(config, name) ==
  LET hit == SelectSeq(config, LAMBDA rc : rc.name = name)
  IN  IF hit = <<>> THEN <<>> ELSE hit[1].replays

--------------------------------------------------------------------------
(* src/app.rs *)

selected_repo_real_index(s) ==
  IF IsNone(s.ui.repos_state) THEN None
  ELSE Get(s.ui.filtered_repo_indices, Unwrap(s.ui.repos_state))

\* selected_branch_real_index without the mapping: the visible position is
\* taken for the backing index
selected_branch_real_index_unmapped(s) == s.ui.branches_state

selected_branch_real_index(s) ==
  IF IsNone(s.ui.branches_state) THEN None
  ELSE Get(s.ui.filtered_branch_indices, Unwrap(s.ui.branches_state))

selected_workflow_real_index(s) ==
  IF IsNone(s.ui.workflows_state) THEN None
  ELSE Get(s.ui.filtered_workflow_indices, Unwrap(s.ui.workflows_state))

\* A Vec index past the end panics: the process aborts.
Panic(s) == [s |-> [s EXCEPT !.panic = TRUE], res |-> Ok]

FirstOrNone(v) == IF v = <<>> THEN None ELSE Some(0)

\* update_search_filter that matches the query against the labels the panel
\* currently shows (the backing labels under the current mapping) and keeps
\* their positions in that list
update_search_filter_over_visible(s) ==
  LET query == s.ui.search_query
      Visible(labels, mapping) ==
        [k \in 1..Len(mapping) |-> labels[mapping[k] + 1]]
  IN
  CASE s.ui.focus = "Repo" ->
         LET m == FilterIndices(Visible(s.data.repos, s.ui.filtered_repo_indices), query)
         IN  [s EXCEPT !.ui.filtered_repo_indices = m, !.ui.repos_state = FirstOrNone(m)]
    [] s.ui.focus = "Branches" ->
         LET m == FilterIndices(Visible(s.data.branches, s.ui.filtered_branch_indices), query)
         IN  [s EXCEPT !.ui.filtered_branch_indices = m, !.ui.branches_state = FirstOrNone(m)]
    [] s.ui.focus = "Workflows" ->
         LET m == FilterIndices(Visible(s.data.workflows, s.ui.filtered_workflow_indices), query)
         IN  [s EXCEPT !.ui.filtered_workflow_indices = m, !.ui.workflows_state = FirstOrNone(m)]
    [] OTHER -> s

update_search_filter(s) ==
  LET query == s.ui.search_query IN
  CASE s.ui.focus = "Repo" ->
         LET m == FilterIndices(s.data.repos, query)
         IN  [s EXCEPT !.ui.filtered_repo_indices = m, !.ui.repos_state = FirstOrNone(m)]
    [] s.ui.focus = "Branches" ->
         LET m == FilterIndices(s.data.branches, query)
         IN  [s EXCEPT !.ui.filtered_branch_indices = m, !.ui.branches_state = FirstOrNone(m)]
    [] s.ui.focus = "Workflows" ->
         LET m == FilterIndices(s.data.workflows, query)
         IN  [s EXCEPT !.ui.filtered_workflow_indices = m, !.ui.workflows_state = FirstOrNone(m)]
    [] OTHER -> s

\* reset_search that restores the branch and workflow mappings and leaves
\* the repository mapping as the last filter made it
reset_search_keeps_repo_filter(s) ==
  [s EXCEPT !.ui.search_active = FALSE,
            !.ui.search_query = <<>>,
            !.ui.filtered_branch_indices = Range0(Len(s.data.branches)),
            !.ui.filtered_workflow_indices = Range0(Len(s.data.workflows))]

reset_search(s) ==
  [s EXCEPT !.ui.search_active = FALSE,
            !.ui.search_query = <<>>,
            !.ui.filtered_repo_indices = Range0(Len(s.data.repos)),
            !.ui.filtered_branch_indices = Range0(Len(s.data.branches)),
            !.ui.filtered_workflow_indices = Range0(Len(s.data.workflows))]

save_repos_to_config(s, io) ==
  LET existing == load_config(s)
      repo_configs == [k \in 1..Len(s.data.repos) |->
                         [name |-> s.data.repos[k],
                          replays |-> ReplaysFor(existing, s.data.repos[k])]]
  IN  save_config(s, repo_configs, io)

add_repo(s, owner, name, fetched, io) ==
  IF ~fetched.ok THEN [s |-> s, res |-> Err(fetched.e)]
  ELSE LET repo_name == owner \o Lit("/") \o name
           s1 == [s EXCEPT !.ui.output = Lit("Added repo '") \o repo_name \o Lit("'"),
                           !.data.repos = Append(@, repo_name),
                           !.ui.filtered_repo_indices = Range0(Len(s.data.repos) + 1)]
       IN  save_repos_to_config(s1, io)

load_branches(s, fetched) ==
  LET sel == selected_repo_real_index(s) IN
  IF IsNone(sel) THEN [s |-> s, res |-> Err(Lit("No repo selected."))]
  ELSE IF Unwrap(sel) >= Len(s.data.repos) THEN Panic(s)
  ELSE
    LET repo_name == s.data.repos[Unwrap(sel) + 1]
        parts == Splitn2(repo_name)
    IN
    IF Len(parts) # 2
    THEN [s |-> s, res |-> Err(Lit("Invalid repo format: '") \o repo_name
                                \o Lit("'. Expected 'owner/name'."))]
    ELSE
      LET s1 == [s EXCEPT !.ui.output = Lit("Fetching branches for '") \o repo_name \o Lit("'..."),
                          !.ui.output_is_error = FALSE]
      IN
      IF ~fetched.ok THEN [s |-> s1, res |-> Err(fetched.e)]
      ELSE
        [s |-> [s1 EXCEPT
                  !.data.branches = fetched.branches,
                  !.ui.branches_state = FirstOrNone(fetched.branches),
                  !.data.workflows = fetched.workflows,
                  !.ui.workflows_state = FirstOrNone(fetched.workflows),
                  !.ui.filtered_branch_indices = Range0(Len(fetched.branches)),
                  !.ui.filtered_workflow_indices = Range0(Len(fetched.workflows)),
                  !.ui.search_active = FALSE,
                  !.ui.search_query = <<>>,
                  !.ui.output = Lit("Loaded ") \o Lit(ToString(Len(fetched.branches)))
                                  \o Lit(" branches and ") \o Lit(ToString(Len(fetched.workflows)))
                                  \o Lit(" workflows for '") \o repo_name \o Lit("'")],
         res |-> Ok]

load_workflows(s, fetched) ==
  LET rsel == selected_repo_real_index(s) IN
  IF IsNone(rsel) THEN [s |-> s, res |-> Err(Lit("No repo selected."))]
  ELSE IF Unwrap(rsel) >= Len(s.data.repos) THEN Panic(s)
  ELSE
    LET repo_name == s.data.repos[Unwrap(rsel) + 1]
        bsel == selected_branch_real_index(s)
    IN
    IF IsNone(bsel) THEN [s |-> s, res |-> Err(Lit("No branch selected."))]
    ELSE IF Unwrap(bsel) >= Len(s.data.branches) THEN Panic(s)
    ELSE
      LET selected_branch == s.data.branches[Unwrap(bsel) + 1]
          parts == Splitn2(repo_name)
      IN
      IF Len(parts) # 2
      THEN [s |-> s, res |-> Err(Lit("Invalid repo format: '") \o repo_name
                                  \o Lit("'. Expected 'owner/name'."))]
      ELSE
        LET s1 == [s EXCEPT !.ui.output = Lit("Fetching workflows for branch '")
                                            \o selected_branch \o Lit("'..."),
                            !.ui.output_is_error = FALSE]
        IN
        IF ~fetched.ok THEN [s |-> s1, res |-> Err(fetched.e)]
        ELSE
          LET wfs == fetched.workflows
              names == [k \in 1..Len(wfs) |-> Lit("- ") \o wfs[k]]
          IN
          [s |-> [s1 EXCEPT
                    !.data.workflows = wfs,
                    !.ui.workflows_state = FirstOrNone(wfs),
                    !.ui.filtered_workflow_indices = Range0(Len(wfs)),
                    !.ui.output =
                       IF wfs = <<>>
                       THEN Lit("No workflows found on branch '") \o selected_branch \o Lit("'.")
                       ELSE Lit("Loaded ") \o Lit(ToString(Len(wfs))) \o Lit(" workflows for branch '")
                              \o selected_branch \o Lit("':\n\n") \o Join(names, Lit("\n"))],
           res |-> Ok]

\* res.soft: a selection lookup failed and the function returned Ok(()) after
\* writing the message
load_inputs(s, answer) ==
  LET wsel == selected_workflow_real_index(s) IN
  IF IsNone(wsel)
  THEN [s |-> [s EXCEPT !.ui.output = Lit("No workflow selected.")],
        res |-> Ok, soft |-> Lit("No workflow selected.")]
  ELSE IF Unwrap(wsel) >= Len(s.data.workflows) THEN Panic(s) @@ [soft |-> <<>>]
  ELSE
    LET workflow_filename == s.data.workflows[Unwrap(wsel) + 1]
        rsel == selected_repo_real_index(s)
    IN
    IF IsNone(rsel)
    THEN [s |-> [s EXCEPT !.ui.output = Lit("No repo selected.")],
          res |-> Ok, soft |-> Lit("No repo selected.")]
    ELSE IF Unwrap(rsel) >= Len(s.data.repos) THEN Panic(s) @@ [soft |-> <<>>]
    ELSE
      LET bsel == selected_branch_real_index(s) IN
      IF IsSome(bsel) /\ Unwrap(bsel) >= Len(s.data.branches) THEN Panic(s) @@ [soft |-> <<>>]
      ELSE
        LET got == fetch_workflow_inputs(answer) IN
        IF ~got.ok THEN [s |-> s, res |-> Err(got.e), soft |-> <<>>]
        ELSE
          [s |-> [s EXCEPT
                    !.data.inputs = got.inputs_list,
                    !.data.input_fields = got.fields,
                    !.ui.input_fields_selected = 0,
                    !.ui.input_fields_editing = FALSE,
                    !.ui.inputs_state = FirstOrNone(got.inputs_list),
                    !.ui.output =
                       IF got.inputs_list = <<>>
                       THEN Lit("Workflow '") \o workflow_filename
                              \o Lit("' has no dispatch inputs.\n\nPress 'i' or Enter to dispatch.")
                       ELSE Lit("Inputs for '") \o workflow_filename \o Lit("':\n\n")
                              \o Join([k \in 1..Len(got.inputs_list) |->
                                         Lit("- ") \o got.inputs_list[k]], Lit("\n"))
                              \o Lit("\n\nPress 'i' to edit inputs and dispatch.")],
           res |-> Ok, soft |-> <<>>]

\* the three lookups shared by run_workflow and build_dispatch_command, in
\* the order of the source: [ok, e, panic, repo_name, branch, workflow]
DispatchTarget(s) ==
  LET rsel == selected_repo_real_index(s)
      bsel == selected_branch_real_index(s)
      wsel == selected_workflow_real_index(s)
      none == [ok |-> FALSE, e |-> <<>>, panic |-> FALSE,
               repo_name |-> <<>>, branch |-> <<>>, workflow |-> <<>>]
  IN
  IF IsNone(rsel) THEN [none EXCEPT !.e = Lit("No repo selected.")]
  ELSE IF Unwrap(rsel) >= Len(s.data.repos) THEN [none EXCEPT !.panic = TRUE]
  ELSE IF IsNone(bsel) THEN [none EXCEPT !.e = Lit("No branch selected.")]
  ELSE IF Unwrap(bsel) >= Len(s.data.branches) THEN [none EXCEPT !.panic = TRUE]
  ELSE IF IsNone(wsel) THEN [none EXCEPT !.e = Lit("No workflow selected.")]
  ELSE IF Unwrap(wsel) >= Len(s.data.workflows) THEN [none EXCEPT !.panic = TRUE]
  ELSE [ok |-> TRUE, e |-> <<>>, panic |-> FALSE,
        repo_name |-> s.data.repos[Unwrap(rsel) + 1],
        branch |-> s.data.branches[Unwrap(bsel) + 1],
        workflow |-> s.data.workflows[Unwrap(wsel) + 1]]

\* build_dispatch_command without the test for an empty value
build_dispatch_command_every_field(s) ==
  LET t == DispatchTarget(s) IN
  IF ~t.ok THEN [ok |-> FALSE, e |-> t.e, panic |-> t.panic, args |-> <<>>, preview |-> <<>>]
  ELSE LET fields == s.data.input_fields
           pairs == [k \in 1..Len(fields) |->
                       <<Lit("-f"), fields[k].name \o Lit("=") \o fields[k].value>>]
           args == WorkflowRunArgs(t.workflow, t.repo_name, t.branch) \o Join(pairs, <<>>)
       IN  [ok |-> TRUE, e |-> <<>>, panic |-> FALSE, args |-> args, preview |-> PreviewOf(args)]

build_dispatch_command(s) ==
  LET t == DispatchTarget(s) IN
  IF ~t.ok THEN [ok |-> FALSE, e |-> t.e, panic |-> t.panic, args |-> <<>>, preview |-> <<>>]
  ELSE LET args == WorkflowRunArgs(t.workflow, t.repo_name, t.branch)
                     \o FieldArgs(s.data.input_fields)
       IN  [ok |-> TRUE, e |-> <<>>, panic |-> FALSE, args |-> args, preview |-> PreviewOf(args)]

DispatchOutputLines(preview, fields) ==
  << [text |-> Lit("(check) Workflow dispatched!"), color |-> "Green"],
     [text |-> <<>>, color |-> "White"],
     [text |-> Lit("Command:"), color |-> "Yellow"],
     [text |-> Lit("  ") \o preview, color |-> "Yellow"],
     [text |-> <<>>, color |-> "White"],
     [text |-> Lit("Inputs:"), color |-> "White"] >>
  \o [k \in 1..Len(fields) |->
        [text |-> Lit("  ") \o fields[k].name \o Lit(" = ") \o fields[k].value, color |-> "White"]]
  \o << [text |-> <<>>, color |-> "White"],
        [text |-> Lit("Press 'l' to watch run logs, 'v' to open in browser, or any other key to continue."),
         color |-> "Blue"] >>

run_workflow(s, answer) ==
  LET t == DispatchTarget(s) IN
  IF t.panic THEN Panic(s)
  ELSE IF ~t.ok THEN [s |-> s, res |-> Err(t.e)]
  ELSE
    LET d == dispatch_workflow(t.repo_name, t.branch, t.workflow, s.data.input_fields, answer)
        s1 == [s EXCEPT !.gh = Append(@, d.ran)]
    IN
    IF ~d.ok THEN [s |-> s1, res |-> Err(d.e)]
    ELSE
      [s |-> [s1 EXCEPT
                !.ui.output_is_success = TRUE,
                !.ui.output_is_error = FALSE,
                !.ui.dispatch_output_lines = DispatchOutputLines(d.preview, s.data.input_fields),
                !.ui.output = Lit("dispatch_success"),
                !.ui.awaiting_log_prompt = TRUE],
       res |-> Ok]

watch_workflow_logs(s, answer) ==
  LET rsel == selected_repo_real_index(s)
      wsel == selected_workflow_real_index(s)
  IN
  IF IsNone(rsel) THEN [s |-> s, res |-> Err(Lit("No repo selected."))]
  ELSE IF Unwrap(rsel) >= Len(s.data.repos) THEN Panic(s)
  ELSE IF IsNone(wsel) THEN [s |-> s, res |-> Err(Lit("No workflow selected."))]
  ELSE IF Unwrap(wsel) >= Len(s.data.workflows) THEN Panic(s)
  ELSE
    LET workflow_filename == s.data.workflows[Unwrap(wsel) + 1]
        s1 == [s EXCEPT !.ui.output = Lit("Fetching latest run for '") \o workflow_filename
                                        \o Lit("'..."),
                        !.ui.output_is_error = FALSE,
                        !.logs = Append(@, [repo |-> s.data.repos[Unwrap(rsel) + 1],
                                            workflow |-> workflow_filename])]
    IN
    IF ~answer.ok THEN [s |-> s1, res |-> Err(answer.e)]
    ELSE [s |-> [s1 EXCEPT
                   !.ui.last_run_id = Some(answer.run_id),
                   !.ui.output = Lit("Run #") \o Lit(ToString(answer.run_id))
                                   \o Lit(" | status: completed | conclusion: success\n")
                                   \o Lit("log text")
                                   \o Lit("\n\nPress 'l' to refresh logs, 'v' to open in browser, or any other key to dismiss.")],
          res |-> Ok]

\* description: name=value of every captured pair, joined with ", "
ReplayDescription(pairs) ==
  Join([k \in 1..Len(pairs) |-> pairs[k].name \o Lit("=") \o pairs[k].value], Lit(", "))

\* a save that captures every field, empty values included
save_replay_every_field(s, io) ==
  LET rsel == selected_repo_real_index(s)
      wsel == selected_workflow_real_index(s)
  IN
  IF IsNone(rsel) THEN [s |-> s, res |-> Err(Lit("No repo selected."))]
  ELSE IF Unwrap(rsel) >= Len(s.data.repos) THEN Panic(s)
  ELSE IF IsNone(wsel) THEN [s |-> s, res |-> Err(Lit("No workflow selected."))]
  ELSE IF Unwrap(wsel) >= Len(s.data.workflows) THEN Panic(s)
  ELSE
    LET repo_name == s.data.repos[Unwrap(rsel) + 1]
        workflow_filename == s.data.workflows[Unwrap(wsel) + 1]
        with_values == s.data.input_fields
        inputs_with_values == [k \in 1..Len(with_values) |->
                                 [name |-> with_values[k].name, value |-> with_values[k].value]]
    IN
    IF inputs_with_values = <<>>
    THEN [s |-> s, res |-> Err(Lit("No inputs to save - workflows without inputs don't need replays."))]
    ELSE
      LET replay == [workflow |-> workflow_filename,
                     description |-> ReplayDescription(inputs_with_values),
                     inputs |-> inputs_with_values]
          config == load_config(s)
          known == \E k \in 1..Len(config) : config[k].name = repo_name
          first == CHOOSE k \in 1..Len(config) :
                     config[k].name = repo_name /\ \A j \in 1..(k - 1) : config[j].name # repo_name
          config1 == IF known
                     THEN [config EXCEPT ![first].replays = Append(@, replay)]
                     ELSE Append(config, [name |-> repo_name, replays |-> <<replay>>])
          saved == save_config(s, config1, io)
      IN
      IF ~saved.res.ok THEN saved
      ELSE [s |-> [saved.s EXCEPT
                     !.ui.output = Lit("(check) Replay saved for '") \o repo_name \o Lit("' -> ")
                                     \o workflow_filename \o Lit("\n  ") \o replay.description,
                     !.ui.output_is_error = FALSE],
            res |-> Ok]

\* a save without the refusal of an empty capture
save_replay_unchecked(s, io) ==
  LET rsel == selected_repo_real_index(s)
      wsel == selected_workflow_real_index(s)
  IN
  IF IsNone(rsel) THEN [s |-> s, res |-> Err(Lit("No repo selected."))]
  ELSE IF Unwrap(rsel) >= Len(s.data.repos) THEN Panic(s)
  ELSE IF IsNone(wsel) THEN [s |-> s, res |-> Err(Lit("No workflow selected."))]
  ELSE IF Unwrap(wsel) >= Len(s.data.workflows) THEN Panic(s)
  ELSE
    LET repo_name == s.data.repos[Unwrap(rsel) + 1]
        workflow_filename == s.data.workflows[Unwrap(wsel) + 1]
        with_values == SelectSeq(s.data.input_fields, LAMBDA f : f.value # <<>>)
        inputs_with_values == [k \in 1..Len(with_values) |->
                                 [name |-> with_values[k].name, value |-> with_values[k].value]]
    IN
    IF FALSE
    THEN [s |-> s, res |-> Err(Lit("No inputs to save - workflows without inputs don't need replays."))]
    ELSE
      LET replay == [workflow |-> workflow_filename,
                     description |-> ReplayDescription(inputs_with_values),
                     inputs |-> inputs_with_values]
          config == load_config(s)
          known == \E k \in 1..Len(config) : config[k].name = repo_name
          first == CHOOSE k \in 1..Len(config) :
                     config[k].name = repo_name /\ \A j \in 1..(k - 1) : config[j].name # repo_name
          config1 == IF known
                     THEN [config EXCEPT ![first].replays = Append(@, replay)]
                     ELSE Append(config, [name |-> repo_name, replays |-> <<replay>>])
          saved == save_config(s, config1, io)
      IN
      IF ~saved.res.ok THEN saved
      ELSE [s |-> [saved.s EXCEPT
                     !.ui.output = Lit("(check) Replay saved for '") \o repo_name \o Lit("' -> ")
                                     \o workflow_filename \o Lit("\n  ") \o replay.description,
                     !.ui.output_is_error = FALSE],
            res |-> Ok]

save_replay(s, io) ==
  LET rsel == selected_repo_real_index(s)
      wsel == selected_workflow_real_index(s)
  IN
  IF IsNone(rsel) THEN [s |-> s, res |-> Err(Lit("No repo selected."))]
  ELSE IF Unwrap(rsel) >= Len(s.data.repos) THEN Panic(s)
  ELSE IF IsNone(wsel) THEN [s |-> s, res |-> Err(Lit("No workflow selected."))]
  ELSE IF Unwrap(wsel) >= Len(s.data.workflows) THEN Panic(s)
  ELSE
    LET repo_name == s.data.repos[Unwrap(rsel) + 1]
        workflow_filename == s.data.workflows[Unwrap(wsel) + 1]
        with_values == SelectSeq(s.data.input_fields, LAMBDA f : f.value # <<>>)
        inputs_with_values == [k \in 1..Len(with_values) |->
                                 [name |-> with_values[k].name, value |-> with_values[k].value]]
    IN
    IF inputs_with_values = <<>>
    THEN [s |-> s, res |-> Err(Lit("No inputs to save - workflows without inputs don't need replays."))]
    ELSE
      LET replay == [workflow |-> workflow_filename,
                     description |-> ReplayDescription(inputs_with_values),
                     inputs |-> inputs_with_values]
          config == load_config(s)
          known == \E k \in 1..Len(config) : config[k].name = repo_name
          first == CHOOSE k \in 1..Len(config) :
                     config[k].name = repo_name /\ \A j \in 1..(k - 1) : config[j].name # repo_name
          config1 == IF known
                     THEN [config EXCEPT ![first].replays = Append(@, replay)]
                     ELSE Append(config, [name |-> repo_name, replays |-> <<replay>>])
          saved == save_config(s, config1, io)
      IN
      IF ~saved.res.ok THEN saved
      ELSE [s |-> [saved.s EXCEPT
                     !.ui.output = Lit("(check) Replay saved for '") \o repo_name \o Lit("' -> ")
                                     \o workflow_filename \o Lit("\n  ") \o replay.description,
                     !.ui.output_is_error = FALSE],
            res |-> Ok]

open_replays(s) ==
  LET rsel == selected_repo_real_index(s) IN
  IF IsNone(rsel)
  THEN [s EXCEPT !.ui.output = Lit("No repo selected."), !.ui.output_is_error = TRUE]
  ELSE IF Unwrap(rsel) >= Len(s.data.repos) THEN [s EXCEPT !.panic = TRUE]
  ELSE
    LET repo_name == s.data.repos[Unwrap(rsel) + 1]
        list == ReplaysFor(load_config(s), repo_name)
        s1 == [s EXCEPT !.data.replays_list = list]
    IN
    IF list = <<>>
    THEN [s1 EXCEPT !.ui.output = Lit("No saved replays for '") \o repo_name \o Lit("'."),
                    !.ui.output_is_error = FALSE]
    ELSE [s1 EXCEPT !.ui.show_replays_popup = TRUE, !.ui.replays_state = Some(0)]

RECURSIVE ReplayArgs_reversed(_)
\* the captured pairs passed last first
ReplayArgs_reversed(inputs) ==
  IF inputs = <<>> THEN <<>>
  ELSE ReplayArgs_reversed(Tail(inputs))
         \o <<Lit("-f"), Head(inputs).name \o Lit("=") \o Head(inputs).value>>

RECURSIVE ReplayArgs(_)
ReplayArgs(inputs) ==
  IF inputs = <<>> THEN <<>>
  ELSE <<Lit("-f"), Head(inputs).name \o Lit("=") \o Head(inputs).value>>
         \o ReplayArgs(Tail(inputs))

run_replay(s, answer) ==
  LET sel == s.ui.replays_state IN
  IF IsNone(sel) THEN [s |-> s, res |-> Err(Lit("No replay selected."))]
  ELSE IF Unwrap(sel) >= Len(s.data.replays_list) THEN Panic(s)
  ELSE
    LET replay == s.data.replays_list[Unwrap(sel) + 1]
        rsel == selected_repo_real_index(s)
        bsel == selected_branch_real_index(s)
    IN
    IF IsNone(rsel) THEN [s |-> s, res |-> Err(Lit("No repo selected."))]
    ELSE IF Unwrap(rsel) >= Len(s.data.repos) THEN Panic(s)
    ELSE IF IsNone(bsel) THEN [s |-> s, res |-> Err(Lit("No branch selected."))]
    ELSE IF Unwrap(bsel) >= Len(s.data.branches) THEN Panic(s)
    ELSE
      LET args == WorkflowRunArgs(replay.workflow, s.data.repos[Unwrap(rsel) + 1],
                                  s.data.branches[Unwrap(bsel) + 1])
                    \o ReplayArgs(replay.inputs)
          preview == PreviewOf(args)
          s1 == [s EXCEPT !.gh = Append(@, args)]
      IN
      IF ~answer.ok
      THEN [s |-> s1, res |-> Err(Lit("Replay dispatch failed: ") \o answer.e)]
      ELSE
        [s |-> [s1 EXCEPT
                  !.ui.show_replays_popup = FALSE,
                  !.ui.output_is_success = TRUE,
                  !.ui.output_is_error = FALSE,
                  !.ui.output = Lit("(check) Replay dispatched!\n\nCommand:\n  ") \o preview
                                  \o Lit("\n\nInputs:\n")
                                  \o Join([k \in 1..Len(replay.inputs) |->
                                             Lit("  ") \o replay.inputs[k].name \o Lit(" = ")
                                               \o replay.inputs[k].value], Lit("\n"))
                                  \o Lit("\n\nPress 'l' to watch run logs, 'v' to open in browser, or any other key to continue."),
                  !.ui.awaiting_log_prompt = TRUE],
         res |-> Ok]

\* a delete that leaves the selected index where it was
delete_replay_keeps_index(s, io) ==
  LET sel == s.ui.replays_state
      rsel == selected_repo_real_index(s)
  IN
  IF IsNone(sel) THEN [s |-> s, res |-> Err(Lit("No replay selected."))]
  ELSE IF IsNone(rsel) THEN [s |-> s, res |-> Err(Lit("No repo selected."))]
  ELSE IF Unwrap(rsel) >= Len(s.data.repos) THEN Panic(s)
  ELSE
    LET replay_idx == Unwrap(sel)
        repo_name == s.data.repos[Unwrap(rsel) + 1]
        config == load_config(s)
        known == \E k \in 1..Len(config) : config[k].name = repo_name
        first == CHOOSE k \in 1..Len(config) :
                   config[k].name = repo_name /\ \A j \in 1..(k - 1) : config[j].name # repo_name
    IN
    IF ~known \/ replay_idx >= Len(config[first].replays) THEN [s |-> s, res |-> Ok]
    ELSE
      LET removed == config[first].replays[replay_idx + 1]
          remaining == RemoveAt(config[first].replays, replay_idx)
          saved == save_config(s, [config EXCEPT ![first].replays = remaining], io)
      IN
      IF ~saved.res.ok THEN saved
      ELSE
        [s |-> IF remaining = <<>>
               THEN [saved.s EXCEPT
                       !.data.replays_list = remaining,
                       !.ui.show_replays_popup = FALSE,
                       !.ui.output = Lit("Deleted replay '") \o removed.description
                                       \o Lit("'. No replays remaining."),
                       !.ui.output_is_error = FALSE]
               ELSE [saved.s EXCEPT
                       !.data.replays_list = remaining,
                       !.ui.output = Lit("Deleted replay '") \o removed.description \o Lit("'."),
                       !.ui.output_is_error = FALSE],
         res |-> Ok]

delete_replay(s, io) ==
  LET sel == s.ui.replays_state
      rsel == selected_repo_real_index(s)
  IN
  IF IsNone(sel) THEN [s |-> s, res |-> Err(Lit("No replay selected."))]
  ELSE IF IsNone(rsel) THEN [s |-> s, res |-> Err(Lit("No repo selected."))]
  ELSE IF Unwrap(rsel) >= Len(s.data.repos) THEN Panic(s)
  ELSE
    LET replay_idx == Unwrap(sel)
        repo_name == s.data.repos[Unwrap(rsel) + 1]
        config == load_config(s)
        known == \E k \in 1..Len(config) : config[k].name = repo_name
        first == CHOOSE k \in 1..Len(config) :
                   config[k].name = repo_name /\ \A j \in 1..(k - 1) : config[j].name # repo_name
    IN
    IF ~known \/ replay_idx >= Len(config[first].replays) THEN [s |-> s, res |-> Ok]
    ELSE
      LET removed == config[first].replays[replay_idx + 1]
          remaining == RemoveAt(config[first].replays, replay_idx)
          saved == save_config(s, [config EXCEPT ![first].replays = remaining], io)
      IN
      IF ~saved.res.ok THEN saved
      ELSE
        [s |-> IF remaining = <<>>
               THEN [saved.s EXCEPT
                       !.data.replays_list = remaining,
                       !.ui.show_replays_popup = FALSE,
                       !.ui.output = Lit("Deleted replay '") \o removed.description
                                       \o Lit("'. No replays remaining."),
                       !.ui.output_is_error = FALSE]
               ELSE [saved.s EXCEPT
                       !.data.replays_list = remaining,
                       !.ui.replays_state =
                          Some(IF replay_idx >= Len(remaining) THEN Len(remaining) - 1
                               ELSE replay_idx),
                       !.ui.output = Lit("Deleted replay '") \o removed.description \o Lit("'."),
                       !.ui.output_is_error = FALSE],
         res |-> Ok]

open_repo_in_browser(s, io) ==
  LET rsel == selected_repo_real_index(s) IN
  IF IsNone(rsel) THEN [s |-> s, res |-> Err(Lit("No repo selected."))]
  ELSE IF Unwrap(rsel) >= Len(s.data.repos) THEN Panic(s)
  ELSE [s |-> s, res |-> IF io.ok THEN Ok ELSE Err(io.e)]

open_run_in_browser(s, io) ==
  LET rsel == selected_repo_real_index(s) IN
  IF IsNone(rsel) THEN [s |-> s, res |-> Err(Lit("No repo selected."))]
  ELSE IF Unwrap(rsel) >= Len(s.data.repos) THEN Panic(s)
  ELSE IF IsNone(s.ui.last_run_id) THEN [s |-> s, res |-> Err(Lit("No workflow run to view."))]
  ELSE [s |-> s, res |-> IF io.ok THEN Ok ELSE Err(io.e)]

--------------------------------------------------------------------------
(* src/event.rs: one key event handled by exactly one branch of run *)

SpecialKeys == {"Esc", "Enter", "Tab", "BackTab", "Backspace", "Up", "Down"}
CharKeys == {"y", "Y", "l", "L", "v", "j", "k", "D", "S", "d", "q", "?", "a", "i", "/", "r", "b"}

\* KeyEvent: code, the character of KeyCode::Char, and the CONTROL modifier
Keys ==
  { [code |-> k, c |-> "", ctrl |-> FALSE] : k \in SpecialKeys }
    \cup { [code |-> "Char", c |-> x, ctrl |-> FALSE] : x \in CharKeys }
    \cup { [code |-> "Char", c |-> x, ctrl |-> TRUE] : x \in {"j", "k"} }
    \cup { [code |-> k, c |-> "", ctrl |-> TRUE] : k \in {"Up", "Down"} }

IsChar(key, x) == key.code = "Char" /\ key.c = x

select_next(sel, len) ==
  IF len = 0 THEN sel
  ELSE IF IsSome(sel) THEN Some((Unwrap(sel) + 1) % len)
  ELSE Some(0)

select_previous(sel, len) ==
  IF len = 0 THEN sel
  ELSE IF IsSome(sel) THEN Some(IF Unwrap(sel) = 0 THEN len - 1 ELSE Unwrap(sel) - 1)
  ELSE Some(0)

\* What a handler did: the state it leaves, the match arm it took, the error
\* a lookup or a collaborator raised in it (<<>> when none), whether it
\* asked for a dispatch command to be built, whether it left the loop, and
\* whether the event is within the bounds of the model.
Took(s, arm) ==
  [s |-> s, arm |-> arm, err |-> <<>>, req |-> FALSE, exit |-> FALSE, offered |-> TRUE]

\* a help popup that only Esc dismisses
HelpPopup_esc_only(s, key) ==
  Took(IF key.code = "Esc" THEN [s EXCEPT !.ui.show_help_popup = FALSE] ELSE s, "any")

\* event.rs 16-19
HelpPopup(s, key) == Took([s EXCEPT !.ui.show_help_popup = FALSE], "any")

ClearAddRepo(s) ==
  [s EXCEPT !.ui.add_repo_owner = <<>>, !.ui.add_repo_name = <<>>,
            !.ui.add_repo_focus_owner = TRUE]

\* a refused submission that also resets the form
AddRepoPopup_resets_on_refusal(s, key, fetched, io) ==
  IF key.code = "Esc"
  THEN Took(ClearAddRepo([s EXCEPT !.ui.show_add_repo_popup = FALSE]), "Esc")
  ELSE IF key.code \in {"Tab", "BackTab"}
  THEN Took([s EXCEPT !.ui.add_repo_focus_owner = ~@], "Tab")
  ELSE IF key.code = "Enter"
  THEN LET owner == s.ui.add_repo_owner
           name == s.ui.add_repo_name
       IN
       IF owner = <<>> \/ name = <<>>
       THEN [Took(ClearAddRepo([s EXCEPT !.ui.output = Lit("Both owner and repo fields are required."),
                                         !.ui.output_is_error = TRUE]), "Enter")
               EXCEPT !.err = Lit("Both owner and repo fields are required.")]
       ELSE LET s1 == [s EXCEPT !.ui.show_add_repo_popup = FALSE]
                r == add_repo(s1, owner, name, fetched, io)
                s2 == IF ~r.res.ok
                      THEN [r.s EXCEPT !.ui.output = Lit("Error adding repo: ") \o r.res.e,
                                       !.ui.output_is_error = TRUE]
                      ELSE [r.s EXCEPT !.ui.output_is_error = FALSE]
            IN  [Took(ClearAddRepo(s2), "Enter")
                   EXCEPT !.err = r.res.e, !.offered = Len(s.data.repos) < MaxRepos]
  ELSE IF key.code = "Backspace"
  THEN Took(IF s.ui.add_repo_focus_owner
            THEN [s EXCEPT !.ui.add_repo_owner = Pop(@)]
            ELSE [s EXCEPT !.ui.add_repo_name = Pop(@)], "Backspace")
  ELSE IF key.code = "Char"
  THEN IF s.ui.add_repo_focus_owner
       THEN [Took([s EXCEPT !.ui.add_repo_owner = Append(@, key.c)], "Char")
               EXCEPT !.offered = key.c \in TypeChars /\ Len(s.ui.add_repo_owner) < MaxBuf]
       ELSE [Took([s EXCEPT !.ui.add_repo_name = Append(@, key.c)], "Char")
               EXCEPT !.offered = key.c \in TypeChars /\ Len(s.ui.add_repo_name) < MaxBuf]
  ELSE Took(s, "_")

\* a popup that stays open when the repository could not be added
AddRepoPopup_open_on_error(s, key, fetched, io) ==
  IF key.code = "Esc"
  THEN Took(ClearAddRepo([s EXCEPT !.ui.show_add_repo_popup = FALSE]), "Esc")
  ELSE IF key.code \in {"Tab", "BackTab"}
  THEN Took([s EXCEPT !.ui.add_repo_focus_owner = ~@], "Tab")
  ELSE IF key.code = "Enter"
  THEN LET owner == s.ui.add_repo_owner
           name == s.ui.add_repo_name
       IN
       IF owner = <<>> \/ name = <<>>
       THEN [Took([s EXCEPT !.ui.output = Lit("Both owner and repo fields are required."),
                            !.ui.output_is_error = TRUE], "Enter")
               EXCEPT !.err = Lit("Both owner and repo fields are required.")]
       ELSE LET s1 == [s EXCEPT !.ui.show_add_repo_popup = FALSE]
                r == add_repo(s1, owner, name, fetched, io)
                s2 == IF ~r.res.ok
                      THEN [r.s EXCEPT !.ui.output = Lit("Error adding repo: ") \o r.res.e,
                                       !.ui.output_is_error = TRUE,
                                       !.ui.show_add_repo_popup = TRUE]
                      ELSE [r.s EXCEPT !.ui.output_is_error = FALSE]
            IN  [Took(ClearAddRepo(s2), "Enter")
                   EXCEPT !.err = r.res.e, !.offered = Len(s.data.repos) < MaxRepos]
  ELSE IF key.code = "Backspace"
  THEN Took(IF s.ui.add_repo_focus_owner
            THEN [s EXCEPT !.ui.add_repo_owner = Pop(@)]
            ELSE [s EXCEPT !.ui.add_repo_name = Pop(@)], "Backspace")
  ELSE IF key.code = "Char"
  THEN IF s.ui.add_repo_focus_owner
       THEN [Took([s EXCEPT !.ui.add_repo_owner = Append(@, key.c)], "Char")
               EXCEPT !.offered = key.c \in TypeChars /\ Len(s.ui.add_repo_owner) < MaxBuf]
       ELSE [Took([s EXCEPT !.ui.add_repo_name = Append(@, key.c)], "Char")
               EXCEPT !.offered = key.c \in TypeChars /\ Len(s.ui.add_repo_name) < MaxBuf]
  ELSE Took(s, "_")

\* AddRepoPopup whose Esc closes the popup and leaves the typed owner and
\* name in their buffers
AddRepoPopup_esc_keeps_text(s, key, fetched, io) ==
  IF key.code = "Esc"
  THEN Took([s EXCEPT !.ui.show_add_repo_popup = FALSE], "Esc")
  ELSE IF key.code \in {"Tab", "BackTab"}
  THEN Took([s EXCEPT !.ui.add_repo_focus_owner = ~@], "Tab")
  ELSE IF key.code = "Enter"
  THEN LET owner == s.ui.add_repo_owner
           name == s.ui.add_repo_name
       IN
       IF owner = <<>> \/ name = <<>>
       THEN [Took([s EXCEPT !.ui.output = Lit("Both owner and repo fields are required."),
                            !.ui.output_is_error = TRUE], "Enter")
               EXCEPT !.err = Lit("Both owner and repo fields are required.")]
       ELSE LET s1 == [s EXCEPT !.ui.show_add_repo_popup = FALSE]
                r == add_repo(s1, owner, name, fetched, io)
                s2 == IF ~r.res.ok
                      THEN [r.s EXCEPT !.ui.output = Lit("Error adding repo: ") \o r.res.e,
                                       !.ui.output_is_error = TRUE]
                      ELSE [r.s EXCEPT !.ui.output_is_error = FALSE]
            IN  [Took(ClearAddRepo(s2), "Enter")
                   EXCEPT !.err = r.res.e, !.offered = Len(s.data.repos) < MaxRepos]
  ELSE IF key.code = "Backspace"
  THEN Took(IF s.ui.add_repo_focus_owner
            THEN [s EXCEPT !.ui.add_repo_owner = Pop(@)]
            ELSE [s EXCEPT !.ui.add_repo_name = Pop(@)], "Backspace")
  ELSE IF key.code = "Char"
  THEN IF s.ui.add_repo_focus_owner
       THEN [Took([s EXCEPT !.ui.add_repo_owner = Append(@, key.c)], "Char")
               EXCEPT !.offered = key.c \in TypeChars /\ Len(s.ui.add_repo_owner) < MaxBuf]
       ELSE [Took([s EXCEPT !.ui.add_repo_name = Append(@, key.c)], "Char")
               EXCEPT !.offered = key.c \in TypeChars /\ Len(s.ui.add_repo_name) < MaxBuf]
  ELSE Took(s, "_")

\* event.rs 22-69
AddRepoPopup(s, key, fetched, io) ==
  IF key.code = "Esc"
  THEN Took(ClearAddRepo([s EXCEPT !.ui.show_add_repo_popup = FALSE]), "Esc")
  ELSE IF key.code \in {"Tab", "BackTab"}
  THEN Took([s EXCEPT !.ui.add_repo_focus_owner = ~@], "Tab")
  ELSE IF key.code = "Enter"
  THEN LET owner == s.ui.add_repo_owner
           name == s.ui.add_repo_name
       IN
       IF owner = <<>> \/ name = <<>>
       THEN [Took([s EXCEPT !.ui.output = Lit("Both owner and repo fields are required."),
                            !.ui.output_is_error = TRUE], "Enter")
               EXCEPT !.err = Lit("Both owner and repo fields are required.")]
       ELSE LET s1 == [s EXCEPT !.ui.show_add_repo_popup = FALSE]
                r == add_repo(s1, owner, name, fetched, io)
                s2 == IF ~r.res.ok
                      THEN [r.s EXCEPT !.ui.output = Lit("Error adding repo: ") \o r.res.e,
                                       !.ui.output_is_error = TRUE]
                      ELSE [r.s EXCEPT !.ui.output_is_error = FALSE]
            IN  [Took(ClearAddRepo(s2), "Enter")
                   EXCEPT !.err = r.res.e, !.offered = Len(s.data.repos) < MaxRepos]
  ELSE IF key.code = "Backspace"
  THEN Took(IF s.ui.add_repo_focus_owner
            THEN [s EXCEPT !.ui.add_repo_owner = Pop(@)]
            ELSE [s EXCEPT !.ui.add_repo_name = Pop(@)], "Backspace")
  ELSE IF key.code = "Char"
  THEN IF s.ui.add_repo_focus_owner
       THEN [Took([s EXCEPT !.ui.add_repo_owner = Append(@, key.c)], "Char")
               EXCEPT !.offered = key.c \in TypeChars /\ Len(s.ui.add_repo_owner) < MaxBuf]
       ELSE [Took([s EXCEPT !.ui.add_repo_name = Append(@, key.c)], "Char")
               EXCEPT !.offered = key.c \in TypeChars /\ Len(s.ui.add_repo_name) < MaxBuf]
  ELSE Took(s, "_")

\* ConfirmDispatchPopup whose error arm writes the message and forgets the
\* error flag
ConfirmDispatchPopup_unflagged(s, key, answer) ==
  IF IsChar(key, "y") \/ IsChar(key, "Y")
  THEN LET s1 == [s EXCEPT !.ui.show_confirm_dispatch = FALSE]
           r == run_workflow(s1, answer)
       IN  [Took(IF ~r.res.ok
                 THEN [r.s EXCEPT !.ui.output = Lit("Error dispatching workflow: ") \o r.res.e]
                 ELSE [r.s EXCEPT !.ui.output_is_error = FALSE], "y")
              EXCEPT !.err = r.res.e]
  ELSE Took([s EXCEPT !.ui.show_confirm_dispatch = FALSE,
                      !.ui.output = Lit("Dispatch cancelled."),
                      !.ui.output_is_error = FALSE], "_")

\* ConfirmDispatchPopup that takes Enter for a confirmation too
ConfirmDispatchPopup_enter_confirms(s, key, answer) ==
  IF IsChar(key, "y") \/ IsChar(key, "Y") \/ key.code = "Enter"
  THEN LET s1 == [s EXCEPT !.ui.show_confirm_dispatch = FALSE]
           r == run_workflow(s1, answer)
       IN  [Took(IF ~r.res.ok
                 THEN [r.s EXCEPT !.ui.output = Lit("Error dispatching workflow: ") \o r.res.e,
                                  !.ui.output_is_error = TRUE]
                 ELSE [r.s EXCEPT !.ui.output_is_error = FALSE], "y")
              EXCEPT !.err = r.res.e]
  ELSE Took([s EXCEPT !.ui.show_confirm_dispatch = FALSE,
                      !.ui.output = Lit("Dispatch cancelled."),
                      !.ui.output_is_error = FALSE], "_")

\* event.rs 72-90
ConfirmDispatchPopup(s, key, answer) ==
  IF IsChar(key, "y") \/ IsChar(key, "Y")
  THEN LET s1 == [s EXCEPT !.ui.show_confirm_dispatch = FALSE]
           r == run_workflow(s1, answer)
       IN  [Took(IF ~r.res.ok
                 THEN [r.s EXCEPT !.ui.output = Lit("Error dispatching workflow: ") \o r.res.e,
                                  !.ui.output_is_error = TRUE]
                 ELSE [r.s EXCEPT !.ui.output_is_error = FALSE], "y")
              EXCEPT !.err = r.res.e]
  ELSE Took([s EXCEPT !.ui.show_confirm_dispatch = FALSE,
                      !.ui.output = Lit("Dispatch cancelled."),
                      !.ui.output_is_error = FALSE], "_")

\* a prompt that gives up after a failed log fetch
LogPrompt_closes_on_error(s, key, logs, io) ==
  IF IsChar(key, "l") \/ IsChar(key, "L")
  THEN LET r == watch_workflow_logs(s, logs)
       IN  [Took(IF ~r.res.ok
                 THEN [r.s EXCEPT !.ui.output = Lit("Error fetching logs: ") \o r.res.e,
                                  !.ui.output_is_error = TRUE,
                                  !.ui.awaiting_log_prompt = FALSE]
                 ELSE [r.s EXCEPT !.ui.output_is_error = FALSE], "l")
              EXCEPT !.err = r.res.e]
  ELSE IF IsChar(key, "v")
  THEN LET r == open_run_in_browser(s, io)
           s1 == IF ~r.res.ok
                 THEN [r.s EXCEPT !.ui.output = Lit("Error opening browser: ") \o r.res.e,
                                  !.ui.output_is_error = TRUE]
                 ELSE r.s
       IN  [Took([s1 EXCEPT !.ui.awaiting_log_prompt = FALSE], "v") EXCEPT !.err = r.res.e]
  ELSE Took([s EXCEPT !.ui.awaiting_log_prompt = FALSE], "_")

\* event.rs 93-116
LogPrompt(s, key, logs, io) ==
  IF IsChar(key, "l") \/ IsChar(key, "L")
  THEN LET r == watch_workflow_logs(s, logs)
       IN  [Took(IF ~r.res.ok
                 THEN [r.s EXCEPT !.ui.output = Lit("Error fetching logs: ") \o r.res.e
                                    \o Lit("\n\nPress 'l' to retry, 'v' to open in browser, or any other key to dismiss."),
                                  !.ui.output_is_error = TRUE]
                 ELSE [r.s EXCEPT !.ui.output_is_error = FALSE], "l")
              EXCEPT !.err = r.res.e]
  ELSE IF IsChar(key, "v")
  THEN LET r == open_run_in_browser(s, io)
           s1 == IF ~r.res.ok
                 THEN [r.s EXCEPT !.ui.output = Lit("Error opening browser: ") \o r.res.e,
                                  !.ui.output_is_error = TRUE]
                 ELSE r.s
       IN  [Took([s1 EXCEPT !.ui.awaiting_log_prompt = FALSE], "v") EXCEPT !.err = r.res.e]
  ELSE Took([s EXCEPT !.ui.awaiting_log_prompt = FALSE], "_")

StrTrue == <<"t", "r", "u", "e">>
StrFalse == <<"f", "a", "l", "s", "e">>

\* Bound on erasing: typed text, and one character of a declared default or
\* of a toggled literal.
Erasable(field) ==
  \/ Len(field.value) <= MaxValue
  \/ field.value \in {field.default_value, StrTrue, StrFalse}

\* the field under the cursor: input_fields.get_mut(input_fields_selected)
SelectedField(s) == Get(s.data.input_fields, s.ui.input_fields_selected)

SetFieldValue(s, v) ==
  [s EXCEPT !.data.input_fields[s.ui.input_fields_selected + 1].value = v]

\* a forward cycle that stops at the last option
CycleForward_no_wrap(s) ==
  LET f == SelectedField(s) IN
  IF IsSome(f) /\ Unwrap(f).input_type = "choice" /\ Unwrap(f).options # <<>>
  THEN LET field == Unwrap(f)
           current_idx == Position(field.options, field.value)
           next_idx == IF IsNone(current_idx) THEN 0
                       ELSE IF Unwrap(current_idx) + 1 < Len(field.options)
                       THEN Unwrap(current_idx) + 1
                       ELSE Unwrap(current_idx)
       IN  SetFieldValue(s, field.options[next_idx + 1])
  ELSE s

\* event.rs 121-133
CycleForward(s) ==
  LET f == SelectedField(s) IN
  IF IsSome(f) /\ Unwrap(f).input_type = "choice" /\ Unwrap(f).options # <<>>
  THEN LET field == Unwrap(f)
           current_idx == Position(field.options, field.value)
           next_idx == IF IsSome(current_idx)
                       THEN (Unwrap(current_idx) + 1) % Len(field.options)
                       ELSE 0
       IN  SetFieldValue(s, field.options[next_idx + 1])
  ELSE s

\* event.rs 135-147
CycleBackward(s) ==
  LET f == SelectedField(s) IN
  IF IsSome(f) /\ Unwrap(f).input_type = "choice" /\ Unwrap(f).options # <<>>
  THEN LET field == Unwrap(f)
           current_idx == Position(field.options, field.value)
           next_idx == IF IsNone(current_idx) \/ current_idx = Some(0)
                       THEN Len(field.options) - 1
                       ELSE Unwrap(current_idx) - 1
       IN  SetFieldValue(s, field.options[next_idx + 1])
  ELSE s

\* RequestDispatch that opens the confirmation over the state as it was: a
\* popup that requested the dispatch stays open
RequestDispatch_keeps_popup(s, onOk, onErr) ==
  LET b == build_dispatch_command(s) IN
  IF b.panic THEN [s EXCEPT !.panic = TRUE]
  ELSE IF b.ok
  THEN [s EXCEPT !.ui.dispatch_command_preview = b.preview,
                 !.ui.show_confirm_dispatch = TRUE]
  ELSE [onErr EXCEPT !.ui.output = Lit("Error: ") \o b.e,
                     !.ui.output_is_error = TRUE]

\* event.rs 178-193, 366-375, 460-470: build the preview and open the
\* confirmation, or report why not
RequestDispatch(s, onOk, onErr) ==
  LET b == build_dispatch_command(s) IN
  IF b.panic THEN [s EXCEPT !.panic = TRUE]
  ELSE IF b.ok
  THEN [onOk EXCEPT !.ui.dispatch_command_preview = b.preview,
                    !.ui.show_confirm_dispatch = TRUE]
  ELSE [onErr EXCEPT !.ui.output = Lit("Error: ") \o b.e,
                     !.ui.output_is_error = TRUE]

\* number of presets the store holds for the selected repository
StoredReplays(s) ==
  LET rsel == selected_repo_real_index(s) IN
  IF IsSome(rsel) /\ Unwrap(rsel) < Len(s.data.repos)
  THEN Len(ReplaysFor(s.disk, s.data.repos[Unwrap(rsel) + 1]))
  ELSE 0

\* an inputs popup whose character keys also type into a choice field
InputsPopup_types_into_choice(s, key, io) ==
  LET editing == s.ui.input_fields_editing
      n == Len(s.data.input_fields)
  IN
  IF key.code = "Tab" THEN Took(CycleForward(s), "Tab")
  ELSE IF key.code = "BackTab" THEN Took(CycleBackward(s), "BackTab")
  ELSE IF key.code = "Esc"
  THEN Took(IF editing THEN [s EXCEPT !.ui.input_fields_editing = FALSE]
            ELSE [s EXCEPT !.ui.show_inputs_popup = FALSE], "Esc")
  ELSE IF (IsChar(key, "j") \/ key.code = "Down") /\ ~editing
  THEN Took(IF n # 0
            THEN [s EXCEPT !.ui.input_fields_selected = (@ + 1) % n]
            ELSE s, "j")
  ELSE IF (IsChar(key, "k") \/ key.code = "Up") /\ ~editing
  THEN Took(IF n # 0
            THEN [s EXCEPT !.ui.input_fields_selected = IF @ = 0 THEN n - 1 ELSE @ - 1]
            ELSE s, "k")
  ELSE IF key.code = "Enter" /\ ~editing
  THEN Took([s EXCEPT !.ui.input_fields_editing = TRUE], "Enter")
  ELSE IF key.code = "Enter" /\ editing
  THEN Took([s EXCEPT !.ui.input_fields_editing = FALSE], "Enter")
  ELSE IF IsChar(key, "D") /\ ~editing
  THEN LET s1 == [s EXCEPT !.ui.input_fields_editing = FALSE]
           closed == [s1 EXCEPT !.ui.show_inputs_popup = FALSE]
       IN  [Took(RequestDispatch(s1, closed, closed), "D")
              EXCEPT !.req = TRUE, !.err = build_dispatch_command(s1).e]
  ELSE IF IsChar(key, "S") /\ ~editing
  THEN LET r == save_replay(s, io)
       IN  [Took(IF r.res.ok
                 THEN [r.s EXCEPT !.ui.output_is_error = FALSE]
                 ELSE [r.s EXCEPT !.ui.output = Lit("Error saving replay: ") \o r.res.e,
                                  !.ui.output_is_error = TRUE], "S")
              EXCEPT !.err = r.res.e, !.offered = StoredReplays(s) < MaxReplays]
  ELSE IF key.code = "Backspace" /\ editing
  THEN IF IsSome(SelectedField(s)) /\ Unwrap(SelectedField(s)).input_type # "choice"
       THEN [Took(SetFieldValue(s, Pop(Unwrap(SelectedField(s)).value)), "Backspace")
               EXCEPT !.offered = Erasable(Unwrap(SelectedField(s)))]
       ELSE Took(s, "Backspace")
  ELSE IF key.code = "Char" /\ editing
  THEN IF IsNone(SelectedField(s)) THEN Took(s, "Char")
       ELSE LET field == Unwrap(SelectedField(s)) IN
            IF field.input_type = "boolean"
            THEN Took(SetFieldValue(s, IF field.value = StrTrue THEN StrFalse
                                       ELSE StrTrue), "Char")
            ELSE [Took(SetFieldValue(s, Append(field.value, key.c)), "Char")
                    EXCEPT !.offered = key.c \in TypeChars /\ Len(field.value) < MaxValue]
  ELSE Took(s, "_")

\* InputsPopup whose 'j' and Down move to the next field while a value is
\* being edited too
InputsPopup_moves_while_editing(s, key, io) ==
  LET editing == s.ui.input_fields_editing
      n == Len(s.data.input_fields)
  IN
  IF key.code = "Tab" THEN Took(CycleForward(s), "Tab")
  ELSE IF key.code = "BackTab" THEN Took(CycleBackward(s), "BackTab")
  ELSE IF key.code = "Esc"
  THEN Took(IF editing THEN [s EXCEPT !.ui.input_fields_editing = FALSE]
            ELSE [s EXCEPT !.ui.show_inputs_popup = FALSE], "Esc")
  ELSE IF IsChar(key, "j") \/ key.code = "Down"
  THEN Took(IF n # 0
            THEN [s EXCEPT !.ui.input_fields_selected = (@ + 1) % n]
            ELSE s, "j")
  ELSE IF (IsChar(key, "k") \/ key.code = "Up") /\ ~editing
  THEN Took(IF n # 0
            THEN [s EXCEPT !.ui.input_fields_selected = IF @ = 0 THEN n - 1 ELSE @ - 1]
            ELSE s, "k")
  ELSE IF key.code = "Enter" /\ ~editing
  THEN Took([s EXCEPT !.ui.input_fields_editing = TRUE], "Enter")
  ELSE IF key.code = "Enter" /\ editing
  THEN Took([s EXCEPT !.ui.input_fields_editing = FALSE], "Enter")
  ELSE IF IsChar(key, "D") /\ ~editing
  THEN LET s1 == [s EXCEPT !.ui.input_fields_editing = FALSE]
           closed == [s1 EXCEPT !.ui.show_inputs_popup = FALSE]
       IN  [Took(RequestDispatch(s1, closed, closed), "D")
              EXCEPT !.req = TRUE, !.err = build_dispatch_command(s1).e]
  ELSE IF IsChar(key, "S") /\ ~editing
  THEN LET r == save_replay(s, io)
       IN  [Took(IF r.res.ok
                 THEN [r.s EXCEPT !.ui.output_is_error = FALSE]
                 ELSE [r.s EXCEPT !.ui.output = Lit("Error saving replay: ") \o r.res.e,
                                  !.ui.output_is_error = TRUE], "S")
              EXCEPT !.err = r.res.e, !.offered = StoredReplays(s) < MaxReplays]
  ELSE IF key.code = "Backspace" /\ editing
  THEN IF IsSome(SelectedField(s)) /\ Unwrap(SelectedField(s)).input_type # "choice"
       THEN [Took(SetFieldValue(s, Pop(Unwrap(SelectedField(s)).value)), "Backspace")
               EXCEPT !.offered = Erasable(Unwrap(SelectedField(s)))]
       ELSE Took(s, "Backspace")
  ELSE IF key.code = "Char" /\ editing
  THEN IF IsNone(SelectedField(s)) THEN Took(s, "Char")
       ELSE LET field == Unwrap(SelectedField(s)) IN
            IF field.input_type = "boolean"
            THEN Took(SetFieldValue(s, IF field.value = StrTrue THEN StrFalse
                                       ELSE StrTrue), "Char")
            ELSE IF field.input_type # "choice"
            THEN [Took(SetFieldValue(s, Append(field.value, key.c)), "Char")
                    EXCEPT !.offered = key.c \in TypeChars /\ Len(field.value) < MaxValue]
            ELSE Took(s, "Char")
  ELSE Took(s, "_")

\* InputsPopup whose Esc closes the popup from Editing as well
InputsPopup_esc_always_closes(s, key, io) ==
  LET editing == s.ui.input_fields_editing
      n == Len(s.data.input_fields)
  IN
  IF key.code = "Tab" THEN Took(CycleForward(s), "Tab")
  ELSE IF key.code = "BackTab" THEN Took(CycleBackward(s), "BackTab")
  ELSE IF key.code = "Esc"
  THEN Took([s EXCEPT !.ui.show_inputs_popup = FALSE,
                      !.ui.input_fields_editing = FALSE], "Esc")
  ELSE IF (IsChar(key, "j") \/ key.code = "Down") /\ ~editing
  THEN Took(IF n # 0
            THEN [s EXCEPT !.ui.input_fields_selected = (@ + 1) % n]
            ELSE s, "j")
  ELSE IF (IsChar(key, "k") \/ key.code = "Up") /\ ~editing
  THEN Took(IF n # 0
            THEN [s EXCEPT !.ui.input_fields_selected = IF @ = 0 THEN n - 1 ELSE @ - 1]
            ELSE s, "k")
  ELSE IF key.code = "Enter" /\ ~editing
  THEN Took([s EXCEPT !.ui.input_fields_editing = TRUE], "Enter")
  ELSE IF key.code = "Enter" /\ editing
  THEN Took([s EXCEPT !.ui.input_fields_editing = FALSE], "Enter")
  ELSE IF IsChar(key, "D") /\ ~editing
  THEN LET s1 == [s EXCEPT !.ui.input_fields_editing = FALSE]
           closed == [s1 EXCEPT !.ui.show_inputs_popup = FALSE]
       IN  [Took(RequestDispatch(s1, closed, closed), "D")
              EXCEPT !.req = TRUE, !.err = build_dispatch_command(s1).e]
  ELSE IF IsChar(key, "S") /\ ~editing
  THEN LET r == save_replay(s, io)
       IN  [Took(IF r.res.ok
                 THEN [r.s EXCEPT !.ui.output_is_error = FALSE]
                 ELSE [r.s EXCEPT !.ui.output = Lit("Error saving replay: ") \o r.res.e,
                                  !.ui.output_is_error = TRUE], "S")
              EXCEPT !.err = r.res.e, !.offered = StoredReplays(s) < MaxReplays]
  ELSE IF key.code = "Backspace" /\ editing
  THEN IF IsSome(SelectedField(s)) /\ Unwrap(SelectedField(s)).input_type # "choice"
       THEN [Took(SetFieldValue(s, Pop(Unwrap(SelectedField(s)).value)), "Backspace")
               EXCEPT !.offered = Erasable(Unwrap(SelectedField(s)))]
       ELSE Took(s, "Backspace")
  ELSE IF key.code = "Char" /\ editing
  THEN IF IsNone(SelectedField(s)) THEN Took(s, "Char")
       ELSE LET field == Unwrap(SelectedField(s)) IN
            IF field.input_type = "boolean"
            THEN Took(SetFieldValue(s, IF field.value = StrTrue THEN StrFalse
                                       ELSE StrTrue), "Char")
            ELSE IF field.input_type # "choice"
            THEN [Took(SetFieldValue(s, Append(field.value, key.c)), "Char")
                    EXCEPT !.offered = key.c \in TypeChars /\ Len(field.value) < MaxValue]
            ELSE Took(s, "Char")
  ELSE Took(s, "_")

\* event.rs 119-229
InputsPopup(s, key, io) ==
  LET editing == s.ui.input_fields_editing
      n == Len(s.data.input_fields)
  IN
  IF key.code = "Tab" THEN Took(CycleForward(s), "Tab")
  ELSE IF key.code = "BackTab" THEN Took(CycleBackward(s), "BackTab")
  ELSE IF key.code = "Esc"
  THEN Took(IF editing THEN [s EXCEPT !.ui.input_fields_editing = FALSE]
            ELSE [s EXCEPT !.ui.show_inputs_popup = FALSE], "Esc")
  ELSE IF (IsChar(key, "j") \/ key.code = "Down") /\ ~editing
  THEN Took(IF n # 0
            THEN [s EXCEPT !.ui.input_fields_selected = (@ + 1) % n]
            ELSE s, "j")
  ELSE IF (IsChar(key, "k") \/ key.code = "Up") /\ ~editing
  THEN Took(IF n # 0
            THEN [s EXCEPT !.ui.input_fields_selected = IF @ = 0 THEN n - 1 ELSE @ - 1]
            ELSE s, "k")
  ELSE IF key.code = "Enter" /\ ~editing
  THEN Took([s EXCEPT !.ui.input_fields_editing = TRUE], "Enter")
  ELSE IF key.code = "Enter" /\ editing
  THEN Took([s EXCEPT !.ui.input_fields_editing = FALSE], "Enter")
  ELSE IF IsChar(key, "D") /\ ~editing
  THEN LET s1 == [s EXCEPT !.ui.input_fields_editing = FALSE]
           closed == [s1 EXCEPT !.ui.show_inputs_popup = FALSE]
       IN  [Took(RequestDispatch(s1, closed, closed), "D")
              EXCEPT !.req = TRUE, !.err = build_dispatch_command(s1).e]
  ELSE IF IsChar(key, "S") /\ ~editing
  THEN LET r == save_replay(s, io)
       IN  [Took(IF r.res.ok
                 THEN [r.s EXCEPT !.ui.output_is_error = FALSE]
                 ELSE [r.s EXCEPT !.ui.output = Lit("Error saving replay: ") \o r.res.e,
                                  !.ui.output_is_error = TRUE], "S")
              EXCEPT !.err = r.res.e, !.offered = StoredReplays(s) < MaxReplays]
  ELSE IF key.code = "Backspace" /\ editing
  THEN IF IsSome(SelectedField(s)) /\ Unwrap(SelectedField(s)).input_type # "choice"
       THEN [Took(SetFieldValue(s, Pop(Unwrap(SelectedField(s)).value)), "Backspace")
               EXCEPT !.offered = Erasable(Unwrap(SelectedField(s)))]
       ELSE Took(s, "Backspace")
  ELSE IF key.code = "Char" /\ editing
  THEN IF IsNone(SelectedField(s)) THEN Took(s, "Char")
       ELSE LET field == Unwrap(SelectedField(s)) IN
            IF field.input_type = "boolean"
            THEN Took(SetFieldValue(s, IF field.value = StrTrue THEN StrFalse
                                       ELSE StrTrue), "Char")
            ELSE IF field.input_type # "choice"
            THEN [Took(SetFieldValue(s, Append(field.value, key.c)), "Char")
                    EXCEPT !.offered = key.c \in TypeChars /\ Len(field.value) < MaxValue]
            ELSE Took(s, "Char")
  ELSE Took(s, "_")

\* event.rs 232-274
\* a presets popup that stays open when the run fails
ReplaysPopup_open_on_error(s, key, answer, io) ==
  LET n == Len(s.data.replays_list)
      sel == IF IsSome(s.ui.replays_state) THEN Unwrap(s.ui.replays_state) ELSE 0
  IN
  IF key.code = "Esc" THEN Took([s EXCEPT !.ui.show_replays_popup = FALSE], "Esc")
  ELSE IF IsChar(key, "j") \/ key.code = "Down"
  THEN Took(IF n # 0 THEN [s EXCEPT !.ui.replays_state = Some((sel + 1) % n)] ELSE s, "j")
  ELSE IF IsChar(key, "k") \/ key.code = "Up"
  THEN Took(IF n # 0
            THEN [s EXCEPT !.ui.replays_state = Some(IF sel = 0 THEN n - 1 ELSE sel - 1)]
            ELSE s, "k")
  ELSE IF key.code = "Enter"
  THEN LET r == run_replay(s, answer)
       IN  [Took(IF r.res.ok
                 THEN [r.s EXCEPT !.ui.output_is_error = FALSE]
                 ELSE [r.s EXCEPT !.ui.output = Lit("Error running replay: ") \o r.res.e,
                                  !.ui.output_is_error = TRUE], "Enter")
              EXCEPT !.err = r.res.e]
  ELSE IF IsChar(key, "d")
  THEN LET r == delete_replay(s, io)
       IN  [Took(IF ~r.res.ok
                 THEN [r.s EXCEPT !.ui.output = Lit("Error deleting replay: ") \o r.res.e,
                                  !.ui.output_is_error = TRUE]
                 ELSE r.s, "d")
              EXCEPT !.err = r.res.e]
  ELSE Took(s, "_")

ReplaysPopup(s, key, answer, io) ==
  LET n == Len(s.data.replays_list)
      sel == IF IsSome(s.ui.replays_state) THEN Unwrap(s.ui.replays_state) ELSE 0
  IN
  IF key.code = "Esc" THEN Took([s EXCEPT !.ui.show_replays_popup = FALSE], "Esc")
  ELSE IF IsChar(key, "j") \/ key.code = "Down"
  THEN Took(IF n # 0 THEN [s EXCEPT !.ui.replays_state = Some((sel + 1) % n)] ELSE s, "j")
  ELSE IF IsChar(key, "k") \/ key.code = "Up"
  THEN Took(IF n # 0
            THEN [s EXCEPT !.ui.replays_state = Some(IF sel = 0 THEN n - 1 ELSE sel - 1)]
            ELSE s, "k")
  ELSE IF key.code = "Enter"
  THEN LET r == run_replay(s, answer)
       IN  [Took(IF r.res.ok
                 THEN [r.s EXCEPT !.ui.output_is_error = FALSE]
                 ELSE [r.s EXCEPT !.ui.show_replays_popup = FALSE,
                                  !.ui.output = Lit("Error running replay: ") \o r.res.e,
                                  !.ui.output_is_error = TRUE], "Enter")
              EXCEPT !.err = r.res.e]
  ELSE IF IsChar(key, "d")
  THEN LET r == delete_replay(s, io)
       IN  [Took(IF ~r.res.ok
                 THEN [r.s EXCEPT !.ui.output = Lit("Error deleting replay: ") \o r.res.e,
                                  !.ui.output_is_error = TRUE]
                 ELSE r.s, "d")
              EXCEPT !.err = r.res.e]
  ELSE Took(s, "_")

\* j/k and Up/Down on the focused list: select_next or select_previous over
\* the selection and the mapping length of the focused panel
MoveFocused(s, forward) ==
  LET move(sel, len) == IF forward THEN select_next(sel, len) ELSE select_previous(sel, len)
  IN
  CASE s.ui.focus = "Repo" ->
         [s EXCEPT !.ui.repos_state = move(@, Len(s.ui.filtered_repo_indices))]
    [] s.ui.focus = "Branches" ->
         [s EXCEPT !.ui.branches_state = move(@, Len(s.ui.filtered_branch_indices))]
    [] s.ui.focus = "Workflows" ->
         [s EXCEPT !.ui.workflows_state = move(@, Len(s.ui.filtered_workflow_indices))]
    [] OTHER -> s

\* SearchInput whose Esc, after cancelling the search, also ends the event
\* loop as Esc does in the base handler
SearchInput_esc_quits(s, key) ==
  IF key.code = "Esc"
  THEN LET s1 == reset_search(s) IN
       [Took(CASE s1.ui.focus = "Repo" ->
                   [s1 EXCEPT !.ui.repos_state = FirstOrNone(s1.data.repos)]
              [] s1.ui.focus = "Branches" ->
                   [s1 EXCEPT !.ui.branches_state = FirstOrNone(s1.data.branches)]
              [] s1.ui.focus = "Workflows" ->
                   [s1 EXCEPT !.ui.workflows_state = FirstOrNone(s1.data.workflows)]
              [] OTHER -> s1, "Esc") EXCEPT !.exit = TRUE]
  ELSE IF key.code = "Enter"
  THEN Took([s EXCEPT !.ui.search_active = FALSE], "Enter")
  ELSE IF key.code = "Backspace"
  THEN Took(update_search_filter([s EXCEPT !.ui.search_query = Pop(@)]), "Backspace")
  ELSE IF (key.code = "Up" \/ IsChar(key, "k")) /\ key.ctrl
  THEN Took(MoveFocused(s, FALSE), "Up")
  ELSE IF (key.code = "Down" \/ IsChar(key, "j")) /\ key.ctrl
  THEN Took(MoveFocused(s, TRUE), "Down")
  ELSE IF key.code = "Up" THEN Took(MoveFocused(s, FALSE), "Up")
  ELSE IF key.code = "Down" THEN Took(MoveFocused(s, TRUE), "Down")
  ELSE IF key.code = "Char"
  THEN [Took(update_search_filter([s EXCEPT !.ui.search_query = Append(@, key.c)]), "Char")
          EXCEPT !.offered = key.c \in TypeChars /\ Len(s.ui.search_query) < MaxQuery]
  ELSE Took(s, "_")

\* event.rs 277-342
SearchInput(s, key) ==
  IF key.code = "Esc"
  THEN LET s1 == reset_search(s) IN
       Took(CASE s1.ui.focus = "Repo" ->
                   [s1 EXCEPT !.ui.repos_state = FirstOrNone(s1.data.repos)]
              [] s1.ui.focus = "Branches" ->
                   [s1 EXCEPT !.ui.branches_state = FirstOrNone(s1.data.branches)]
              [] s1.ui.focus = "Workflows" ->
                   [s1 EXCEPT !.ui.workflows_state = FirstOrNone(s1.data.workflows)]
              [] OTHER -> s1, "Esc")
  ELSE IF key.code = "Enter"
  THEN Took([s EXCEPT !.ui.search_active = FALSE], "Enter")
  ELSE IF key.code = "Backspace"
  THEN Took(update_search_filter([s EXCEPT !.ui.search_query = Pop(@)]), "Backspace")
  ELSE IF (key.code = "Up" \/ IsChar(key, "k")) /\ key.ctrl
  THEN Took(MoveFocused(s, FALSE), "Up")
  ELSE IF (key.code = "Down" \/ IsChar(key, "j")) /\ key.ctrl
  THEN Took(MoveFocused(s, TRUE), "Down")
  ELSE IF key.code = "Up" THEN Took(MoveFocused(s, FALSE), "Up")
  ELSE IF key.code = "Down" THEN Took(MoveFocused(s, TRUE), "Down")
  ELSE IF key.code = "Char"
  THEN [Took(update_search_filter([s EXCEPT !.ui.search_query = Append(@, key.c)]), "Char")
          EXCEPT !.offered = key.c \in TypeChars /\ Len(s.ui.search_query) < MaxQuery]
  ELSE Took(s, "_")

FocusNext(f) ==
  CASE f = "Repo" -> "Branches"
    [] f = "Branches" -> "Workflows"
    [] f = "Workflows" -> "Inputs"
    [] f = "Inputs" -> "Output"
    [] f = "Output" -> "Repo"

\* a backward cycle that stops at the first panel
FocusPrevious_stops_at_repo(f) ==
  CASE f = "Repo" -> "Repo"
    [] f = "Branches" -> "Repo"
    [] f = "Workflows" -> "Branches"
    [] f = "Inputs" -> "Workflows"
    [] f = "Output" -> "Inputs"

FocusPrevious(f) ==
  CASE f = "Repo" -> "Output"
    [] f = "Branches" -> "Repo"
    [] f = "Workflows" -> "Branches"
    [] f = "Inputs" -> "Workflows"
    [] f = "Output" -> "Inputs"

\* Enter that opens the inputs popup when the workflow loaded has fields
Activate_opens_inputs(s, repoDetails, branchWorkflows, workflowInputs) ==
  CASE s.ui.focus = "Repo" ->
         LET r == load_branches(s, repoDetails)
         IN  [Took([r.s EXCEPT !.ui.focus = "Branches"], "Enter") EXCEPT !.err = r.res.e]
    [] s.ui.focus = "Branches" ->
         LET r == load_workflows(s, branchWorkflows)
         IN  [Took([r.s EXCEPT !.ui.focus = "Workflows"], "Enter") EXCEPT !.err = r.res.e]
    [] s.ui.focus = "Workflows" ->
         LET r == load_inputs(s, workflowInputs)
         IN  [Took([r.s EXCEPT !.ui.focus = "Inputs",
                               !.ui.show_inputs_popup = r.s.data.input_fields # <<>>], "Enter")
                EXCEPT !.err = IF r.res.ok THEN r.soft ELSE r.res.e]
    [] s.ui.focus = "Inputs" ->
         [Took(RequestDispatch(s, s, [s EXCEPT !.ui.focus = "Output"]), "Enter")
            EXCEPT !.req = TRUE, !.err = build_dispatch_command(s).e]
    [] OTHER -> Took(s, "Enter")

\* event.rs 443-474: the result of load_branches, load_workflows and
\* load_inputs is dropped and the focus is set after the call
Activate(s, repoDetails, branchWorkflows, workflowInputs) ==
  CASE s.ui.focus = "Repo" ->
         LET r == load_branches(s, repoDetails)
         IN  [Took([r.s EXCEPT !.ui.focus = "Branches"], "Enter") EXCEPT !.err = r.res.e]
    [] s.ui.focus = "Branches" ->
         LET r == load_workflows(s, branchWorkflows)
         IN  [Took([r.s EXCEPT !.ui.focus = "Workflows"], "Enter") EXCEPT !.err = r.res.e]
    [] s.ui.focus = "Workflows" ->
         LET r == load_inputs(s, workflowInputs)
         IN  [Took([r.s EXCEPT !.ui.focus = "Inputs"], "Enter")
                EXCEPT !.err = IF r.res.ok THEN r.soft ELSE r.res.e]
    [] s.ui.focus = "Inputs" ->
         [Took(RequestDispatch(s, s, [s EXCEPT !.ui.focus = "Output"]), "Enter")
            EXCEPT !.req = TRUE, !.err = build_dispatch_command(s).e]
    [] OTHER -> Took(s, "Enter")

\* event.rs 344-476
BaseKeys(s, key, repoDetails, branchWorkflows, workflowInputs, io) ==
  IF key.code = "Esc" \/ IsChar(key, "q") THEN [Took(s, "q") EXCEPT !.exit = TRUE]
  ELSE IF IsChar(key, "?") THEN Took([s EXCEPT !.ui.show_help_popup = ~@], "?")
  ELSE IF IsChar(key, "a")
  THEN Took([s EXCEPT !.ui.show_add_repo_popup = TRUE, !.ui.add_repo_focus_owner = TRUE], "a")
  ELSE IF IsChar(key, "v")
  THEN LET r == open_repo_in_browser(s, io)
       IN  [Took(IF ~r.res.ok
                 THEN [r.s EXCEPT !.ui.output = Lit("Error opening browser: ") \o r.res.e,
                                  !.ui.output_is_error = TRUE]
                 ELSE r.s, "v")
              EXCEPT !.err = r.res.e]
  ELSE IF IsChar(key, "i")
  THEN IF s.data.input_fields # <<>>
       THEN Took([s EXCEPT !.ui.show_inputs_popup = TRUE,
                           !.ui.input_fields_selected = 0,
                           !.ui.input_fields_editing = FALSE], "i")
       ELSE IF s.data.workflows # <<>>
       THEN [Took(RequestDispatch(s, s, s), "i")
               EXCEPT !.req = TRUE, !.err = build_dispatch_command(s).e]
       ELSE Took(s, "i")
  ELSE IF IsChar(key, "/")
  THEN Took(IF s.ui.focus \in {"Repo", "Branches", "Workflows"}
            THEN [s EXCEPT !.ui.search_active = TRUE, !.ui.search_query = <<>>]
            ELSE s, "/")
  ELSE IF IsChar(key, "r")
  THEN LET s1 == open_replays(s)
       IN  [Took(s1, "r") EXCEPT !.err = IF IsNone(selected_repo_real_index(s))
                                          THEN Lit("No repo selected.") ELSE <<>>]
  ELSE IF IsChar(key, "j") \/ key.code = "Down"
  THEN Took(IF s.ui.focus = "Inputs"
            THEN [s EXCEPT !.ui.inputs_state = select_next(@, Len(s.data.inputs))]
            ELSE MoveFocused(s, TRUE), "j")
  ELSE IF IsChar(key, "k") \/ key.code = "Up"
  THEN Took(IF s.ui.focus = "Inputs"
            THEN [s EXCEPT !.ui.inputs_state = select_previous(@, Len(s.data.inputs))]
            ELSE MoveFocused(s, FALSE), "k")
  ELSE IF key.code = "Tab" THEN Took([s EXCEPT !.ui.focus = FocusNext(@)], "Tab")
  ELSE IF key.code = "BackTab" THEN Took([s EXCEPT !.ui.focus = FocusPrevious(@)], "BackTab")
  ELSE IF key.code = "Enter" THEN Activate(s, repoDetails, branchWorkflows, workflowInputs)
  ELSE Took(s, "_")

--------------------------------------------------------------------------
(* ui.rs: the content of the Output panel *)

use_styled(u) == u.output_is_success /\ u.dispatch_output_lines # <<>>

\* render, the right area: the lines of the last dispatch when use_styled,
\* the output message otherwise (red when output_is_error); the message is
\* never absent after AppState::new, so "No output yet." is not drawn
OutputPanel(u) ==
  IF use_styled(u)
  THEN [styled |-> TRUE, red |-> FALSE,
        text |-> Join([k \in 1..Len(u.dispatch_output_lines) |->
                         u.dispatch_output_lines[k].text], Lit("\n"))]
  ELSE [styled |-> FALSE, red |-> u.output_is_error, text |-> u.output]

--------------------------------------------------------------------------
(* The program *)

\* AppState::new
NewData(config) ==
  [repos |-> [k \in 1..Len(config) |-> config[k].name],
   branches |-> <<>>,
   workflows |-> <<>>,
   inputs |-> <<>>,
   input_fields |-> <<>>,
   replays_list |-> <<>>]

NewUi(config) ==
  [repos_state |-> Some(0),
   branches_state |-> Some(0),
   workflows_state |-> None,
   inputs_state |-> Some(0),
   replays_state |-> None,
   focus |-> "Repo",
   output |-> IF config # <<>>
              THEN Lit("Ready to dispatch workflows...\n\nSelect a repo and press Enter to load branches.\nPress 'a' to add a new repo, '?' for all keybindings.")
              ELSE Lit("Welcome to Lazy-Dispatchrr!\n\nPress 'a' to add a repo, '?' for all keybindings."),
   output_is_error |-> FALSE,
   output_is_success |-> FALSE,
   dispatch_output_lines |-> <<>>,
   show_add_repo_popup |-> FALSE,
   add_repo_owner |-> <<>>,
   add_repo_name |-> <<>>,
   add_repo_focus_owner |-> TRUE,
   show_inputs_popup |-> FALSE,
   input_fields_selected |-> 0,
   input_fields_editing |-> FALSE,
   show_confirm_dispatch |-> FALSE,
   dispatch_command_preview |-> <<>>,
   show_help_popup |-> FALSE,
   awaiting_log_prompt |-> FALSE,
   last_run_id |-> None,
   show_replays_popup |-> FALSE,
   search_active |-> FALSE,
   search_query |-> <<>>,
   filtered_repo_indices |-> Range0(Len(config)),
   filtered_branch_indices |-> <<>>,
   filtered_workflow_indices |-> <<>>]

Init ==
  /\ world \in Worlds
  /\ disk \in InitialConfigs(world)
  /\ data = NewData(disk)
  /\ ui = NewUi(disk)
  /\ loop = "run"

\* the state a handler starts from; gh and logs collect the commands the
\* handler runs
Now == [data |-> data, ui |-> ui, disk |-> disk, gh |-> <<>>, logs |-> <<>>, panic |-> FALSE]

\* the chain without the test for the inputs popup
ActiveHandler_no_inputs_test(u) ==
  IF u.show_help_popup THEN "help"
  ELSE IF u.show_add_repo_popup THEN "add_repo"
  ELSE IF u.show_confirm_dispatch THEN "confirm"
  ELSE IF u.awaiting_log_prompt THEN "log_prompt"
  ELSE IF u.show_replays_popup THEN "replays"
  ELSE IF u.search_active THEN "search"
  ELSE "base"

\* event.rs 16-342: the first test of the chain that holds picks the handler
ActiveHandler(u) ==
  IF u.show_help_popup THEN "help"
  ELSE IF u.show_add_repo_popup THEN "add_repo"
  ELSE IF u.show_confirm_dispatch THEN "confirm"
  ELSE IF u.awaiting_log_prompt THEN "log_prompt"
  ELSE IF u.show_inputs_popup THEN "inputs"
  ELSE IF u.show_replays_popup THEN "replays"
  ELSE IF u.search_active THEN "search"
  ELSE "base"

Handle(handler, r) ==
  /\ loop = "run"
  /\ ActiveHandler(ui) = handler
  /\ r.offered
  /\ ~LeftOut(world, handler, r)
  /\ world' = world
  /\ data' = r.s.data
  /\ ui' = r.s.ui
  /\ disk' = r.s.disk
  /\ loop' = IF r.s.panic THEN "panic" ELSE IF r.exit THEN "exit" ELSE "run"

\* A collaborator's answer is drawn only when the branch taken asks for it.
AnswersIf(used, answers) == IF used THEN answers ELSE {CHOOSE a \in answers : TRUE}

HelpKey == \E key \in Keys : Handle("help", HelpPopup(Now, key))

AddRepoKey ==
  \E key \in Keys :
    \E fetched \in AnswersIf(key.code = "Enter", RepoDetailsAnswers(world)),
       io \in AnswersIf(key.code = "Enter", IoAnswers) :
      Handle("add_repo", AddRepoPopup(Now, key, fetched, io))

ConfirmKey ==
  \E key \in Keys :
    \E answer \in AnswersIf(key.code = "Char" /\ key.c \in {"y", "Y"}, GhRunAnswers) :
      Handle("confirm", ConfirmDispatchPopup(Now, key, answer))

LogPromptKey ==
  \E key \in Keys :
    \E logs \in AnswersIf(key.code = "Char" /\ key.c \in {"l", "L"}, RunLogsAnswers),
       io \in AnswersIf(IsChar(key, "v"), IoAnswers) :
      Handle("log_prompt", LogPrompt(Now, key, logs, io))

InputsKey ==
  \E key \in Keys :
    \E io \in AnswersIf(IsChar(key, "S"), IoAnswers) :
      Handle("inputs", InputsPopup(Now, key, io))

ReplaysKey ==
  \E key \in Keys :
    \E answer \in AnswersIf(key.code = "Enter", GhRunAnswers),
       io \in AnswersIf(IsChar(key, "d"), IoAnswers) :
      Handle("replays", ReplaysPopup(Now, key, answer, io))

SearchKey == \E key \in Keys : Handle("search", SearchInput(Now, key))

BaseKey ==
  \E key \in Keys :
    \E repoDetails \in AnswersIf(key.code = "Enter" /\ ui.focus = "Repo", RepoDetailsAnswers(world)),
       branchWorkflows \in AnswersIf(key.code = "Enter" /\ ui.focus = "Branches",
                                     BranchWorkflowsAnswers(world)),
       workflowInputs \in AnswersIf(key.code = "Enter" /\ ui.focus = "Workflows",
                                    WorkflowInputsAnswers(world)),
       io \in AnswersIf(IsChar(key, "v"), IoAnswers) :
      Handle("base", BaseKeys(Now, key, repoDetails, branchWorkflows, workflowInputs, io))

Next ==
  \/ HelpKey
  \/ AddRepoKey
  \/ ConfirmKey
  \/ LogPromptKey
  \/ InputsKey
  \/ ReplaysKey
  \/ SearchKey
  \/ BaseKey

Spec == Init /\ [][Next]_vars

--------------------------------------------------------------------------
(* update_search_filter on its own: any backing collection of the focused
   panel, any query buffer *)

SeqsUpTo(S, n) == UNION {[1..k -> S] : k \in 0..n}

FilterLabels == {<<"a">>, <<"b">>, <<"a", "b">>, <<"b", "a">>, <<"a", "c">>}
FilterQueries == SeqsUpTo({"a", "b"}, MaxFilterQuery)

FilterInit ==
  /\ world = "search"
  /\ disk = <<>>
  /\ loop = "filter"
  /\ \E labels \in SeqsUpTo(FilterLabels, MaxLabels), query \in FilterQueries,
        focus \in {"Repo", "Branches", "Workflows"} :
       /\ data = [NewData(<<>>) EXCEPT
                    !.repos = IF focus = "Repo" THEN labels ELSE <<>>,
                    !.branches = IF focus = "Branches" THEN labels ELSE <<>>,
                    !.workflows = IF focus = "Workflows" THEN labels ELSE <<>>]
       /\ ui = [NewUi(<<>>) EXCEPT
                  !.focus = focus,
                  !.search_active = TRUE,
                  !.search_query = query,
                  !.repos_state = FirstOrNone(data.repos),
                  !.branches_state = FirstOrNone(data.branches),
                  !.workflows_state = FirstOrNone(data.workflows),
                  !.filtered_repo_indices = Range0(Len(data.repos)),
                  !.filtered_branch_indices = Range0(Len(data.branches)),
                  !.filtered_workflow_indices = Range0(Len(data.workflows))]

FilterApply ==
  /\ loop = "filter"
  /\ ui' = update_search_filter(Now).ui
  /\ loop' = "filtered"
  /\ UNCHANGED <<data, disk, world>>

FilterNext == FilterApply

SpecFilter == FilterInit /\ [][FilterNext]_vars

--------------------------------------------------------------------------
(* The inputs popup over the fields of a workflow *)

KeyEnter == [code |-> "Enter", c |-> "", ctrl |-> FALSE]
KeyChar(x) == [code |-> "Char", c |-> x, ctrl |-> FALSE]

\* the session up to the inputs popup: Enter on the repository, on the
\* branch and on the workflow, whose file declares `declared`, then 'i'
OpenedInputs(declared) ==
  LET config == CHOOSE c \in InitialConfigs("inputs") : TRUE
      details == RepoDetails(<<BranchB>>, <<WorkflowA>>)
      listed == BranchWorkflows(<<WorkflowA>>)
      inputs == WorkflowInputs(declared)
      io == CHOOSE a \in IoAnswers : a.ok
      Press(s, key) == BaseKeys(s, key, details, listed, inputs, io).s
      s0 == [data |-> NewData(config), ui |-> NewUi(config), disk |-> config,
             gh |-> <<>>, logs |-> <<>>, panic |-> FALSE]
  IN  Press(Press(Press(Press(s0, KeyEnter), KeyEnter), KeyEnter), KeyChar("i"))

InputsInit ==
  /\ world = "inputs"
  /\ loop = "run"
  /\ \E declared \in InputsDeclared :
       /\ data = OpenedInputs(declared).data
       /\ ui = OpenedInputs(declared).ui
       /\ disk = OpenedInputs(declared).disk

InputsNext == InputsKey

SpecInputs == InputsInit /\ [][InputsNext]_vars

--------------------------------------------------------------------------
(* A repository with two workflows: the remote answers load_inputs with the *)
(* inputs the requested workflow file declares.                              *)

\* the workflow_dispatch inputs declared by each workflow file of the
\* repository
DeclaredBy(workflow_filename) ==
  IF workflow_filename = WorkflowA THEN DeclaredInputs ELSE DeclaredFlag

\* what load_inputs fetches in state s: the file of the workflow it resolves
\* from the selection
FetchedInputs(s) ==
  LET wsel == selected_workflow_real_index(s) IN
  IF IsSome(wsel) /\ Unwrap(wsel) < Len(s.data.workflows)
  THEN WorkflowInputs(DeclaredBy(s.data.workflows[Unwrap(wsel) + 1]))
  ELSE WorkflowInputs(<<>>)

SwitchInit ==
  /\ world = "switch"
  /\ disk \in InitialConfigs(world)
  /\ data = NewData(disk)
  /\ ui = NewUi(disk)
  /\ loop = "run"

SwitchBaseKey ==
  \E key \in Keys :
    \E repoDetails \in RepoDetailsAnswers(world),
       branchWorkflows \in BranchWorkflowsAnswers(world),
       io \in AnswersIf(IsChar(key, "v"), IoAnswers) :
      Handle("base", BaseKeys(Now, key, repoDetails, branchWorkflows, FetchedInputs(Now), io))

SwitchNext ==
  \/ HelpKey
  \/ ConfirmKey
  \/ LogPromptKey
  \/ InputsKey
  \/ SwitchBaseKey

SpecSwitch == SwitchInit /\ [][SwitchNext]_vars

--------------------------------------------------------------------------
(* find_latest_run_id: the polling loop of service/github.rs, one lookup at *)
(* a time.  `data` holds the loop's locals, `loop` its position.            *)

\* for attempt in 0..5
MaxAttempts == 5
\* std::time::Duration::from_secs(2)
RetryDelay == 2

\* what one `gh run list` call can come to: the command cannot be started,
\* exits with a failure status, prints something that is not JSON, prints a
\* list without a run id in its first entry, or prints the latest run
ListOutcomes == {"spawn_error", "failed", "bad_json", "no_run", "run"}

CouldNotFind ==
  Lit("Could not find workflow run after dispatch. Try pressing 'l' again in a few seconds.")

RunFound(run_id) == [ok |-> TRUE, e |-> <<>>, run_id |-> run_id]

\* list_runs that propagates a failure status of the command as an error
\* instead of polling again
list_runs_fails_on_status(st, outcome) ==
  LET looked == [st EXCEPT !.lookups = Append(@, outcome)] IN
  CASE outcome = "spawn_error" ->
         [looked EXCEPT !.result = Some(Err(Lit("No such file or directory (os error 2)")))]
    [] outcome = "failed" ->
         [looked EXCEPT !.result = Some(Err(Lit("gh run list failed")))]
    [] outcome = "bad_json" ->
         [looked EXCEPT !.result = Some(Err(Lit("expected value at line 1 column 1")))]
    [] outcome = "no_run" -> [looked EXCEPT !.attempt = @ + 1]
    [] outcome = "run" -> [looked EXCEPT !.result = Some(RunFound(7))]

\* one pass of the loop body after the delay: the lookup command and what the
\* function does with its outcome (`?` returns the error, `continue` and the
\* end of the body go to the next attempt, `return Ok(run_id)` ends the loop)
list_runs(st, outcome) ==
  LET looked == [st EXCEPT !.lookups = Append(@, outcome)] IN
  CASE outcome = "spawn_error" ->
         [looked EXCEPT !.result = Some(Err(Lit("No such file or directory (os error 2)")))]
    [] outcome = "failed" -> [looked EXCEPT !.attempt = @ + 1]
    [] outcome = "bad_json" ->
         [looked EXCEPT !.result = Some(Err(Lit("expected value at line 1 column 1")))]
    [] outcome = "no_run" -> [looked EXCEPT !.attempt = @ + 1]
    [] outcome = "run" -> [looked EXCEPT !.result = Some(RunFound(7))]

LookupInit ==
  /\ world = "lookup"
  /\ disk = <<>>
  /\ ui = NewUi(<<>>)
  /\ loop = "top"
  /\ data = [attempt |-> 0, slept |-> 0, lookups |-> <<>>, result |-> None]

\* the head of the loop body: the delay before every attempt but the first
LookupEnter ==
  /\ loop = "top"
  /\ data.attempt < MaxAttempts
  /\ data' = IF data.attempt > 0 THEN [data EXCEPT !.slept = @ + RetryDelay] ELSE data
  /\ loop' = "list"
  /\ UNCHANGED <<ui, disk, world>>

LookupList ==
  /\ loop = "list"
  /\ \E outcome \in ListOutcomes : data' = list_runs(data, outcome)
  /\ loop' = IF IsSome(data'.result) THEN "done" ELSE "top"
  /\ UNCHANGED <<ui, disk, world>>

\* the range is exhausted: the error after the loop
LookupGiveUp ==
  /\ loop = "top"
  /\ data.attempt = MaxAttempts
  /\ data' = [data EXCEPT !.result = Some(Err(CouldNotFind))]
  /\ loop' = "done"
  /\ UNCHANGED <<ui, disk, world>>

LookupNext == LookupEnter \/ LookupList \/ LookupGiveUp

\* the function runs on the one thread of the program: a step that can be
\* taken is taken (sleep and the command are taken to return)
SpecLookup == LookupInit /\ [][LookupNext]_vars /\ WF_vars(LookupNext)

--------------------------------------------------------------------------
(* Properties *)

\* P(handler, key, r) holds of every key event the loop can take in the
\* current state, r being what the handler does with it
EveryStep(P(_, _, _)) ==
  loop = "run" =>
    LET h == ActiveHandler(ui)
        Try(key, r) == (r.offered /\ ~LeftOut(world, h, r)) => P(h, key, r)
    IN
    \A key \in Keys :
      CASE h = "help" -> Try(key, HelpPopup(Now, key))
        [] h = "add_repo" ->
             \A fetched \in AnswersIf(key.code = "Enter", RepoDetailsAnswers(world)),
                io \in AnswersIf(key.code = "Enter", IoAnswers) :
               Try(key, AddRepoPopup(Now, key, fetched, io))
        [] h = "confirm" ->
             \A answer \in AnswersIf(key.code = "Char" /\ key.c \in {"y", "Y"}, GhRunAnswers) :
               Try(key, ConfirmDispatchPopup(Now, key, answer))
        [] h = "log_prompt" ->
             \A logs \in AnswersIf(key.code = "Char" /\ key.c \in {"l", "L"}, RunLogsAnswers),
                io \in AnswersIf(IsChar(key, "v"), IoAnswers) :
               Try(key, LogPrompt(Now, key, logs, io))
        [] h = "inputs" ->
             \A io \in AnswersIf(IsChar(key, "S"), IoAnswers) :
               Try(key, InputsPopup(Now, key, io))
        [] h = "replays" ->
             \A answer \in AnswersIf(key.code = "Enter", GhRunAnswers),
                io \in AnswersIf(IsChar(key, "d"), IoAnswers) :
               Try(key, ReplaysPopup(Now, key, answer, io))
        [] h = "search" -> Try(key, SearchInput(Now, key))
        [] OTHER ->
             \A repoDetails \in AnswersIf(key.code = "Enter" /\ ui.focus = "Repo",
                                          RepoDetailsAnswers(world)),
                branchWorkflows \in AnswersIf(key.code = "Enter" /\ ui.focus = "Branches",
                                              BranchWorkflowsAnswers(world)),
                workflowInputs \in AnswersIf(key.code = "Enter" /\ ui.focus = "Workflows",
                                             WorkflowInputsAnswers(world)),
                io \in AnswersIf(IsChar(key, "v"), IoAnswers) :
               Try(key, BaseKeys(Now, key, repoDetails, branchWorkflows, workflowInputs, io))

\* the flags of the six modals
Modals ==
  {"show_add_repo_popup", "show_inputs_popup", "show_confirm_dispatch",
   "show_replays_popup", "show_help_popup", "awaiting_log_prompt"}

ActiveModals(u) == {m \in Modals : u[m]}

IsConfirmKey(key) == IsChar(key, "y") \/ IsChar(key, "Y")

\* C1: in every reachable state at most one of the modals AddRepo, Inputs,
\* ConfirmDispatch, Replays, Help and PostDispatchPrompt is active.
C1_AtMostOneModal == Cardinality(ActiveModals(ui)) <= 1

\* C1 happens: one modal has replaced another (the confirmation gave way to
\* the post-dispatch prompt, or the presets list did).
C1_PromptReplacedModal ==
  /\ ActiveModals(ui) = {"awaiting_log_prompt"}
  /\ ui.output_is_success

\* C2: on 'y'/'Y' in ConfirmDispatch exactly one command is run, and its
\* command string is the preview stored when the confirmation was opened.
C2_ConfirmedIsRun ==
  EveryStep(LAMBDA h, key, r :
    (ui.show_confirm_dispatch /\ IsConfirmKey(key)) =>
      /\ Len(r.s.gh) = 1
      /\ PreviewOf(r.s.gh[1]) = ui.dispatch_command_preview)

\* C2 happens: a confirmed dispatch with a -f pair ran, and the command line
\* it reports is the stored preview.
C2_DispatchedAsPreviewed ==
  /\ ui.awaiting_log_prompt
  /\ Len(ui.dispatch_output_lines) > 4
  /\ ui.dispatch_output_lines[4].text = Lit("  ") \o ui.dispatch_command_preview
  /\ Contains(ui.dispatch_command_preview, Lit("-f"))

\* the projection C3 describes, written from the selection itself
C3_Projection ==
  LET repo == data.repos[ui.filtered_repo_indices[ui.repos_state[1] + 1] + 1]
      branch == data.branches[ui.filtered_branch_indices[ui.branches_state[1] + 1] + 1]
      workflow == data.workflows[ui.filtered_workflow_indices[ui.workflows_state[1] + 1] + 1]
      set == SelectSeq(data.input_fields, LAMBDA f : f.value # <<>>)
      pairs == [k \in 1..Len(set) |-> Lit("-f ") \o set[k].name \o Lit("=") \o set[k].value]
  IN  Lit("gh workflow run ") \o workflow \o Lit(" --repo ") \o repo \o Lit(" --ref ") \o branch
        \o (IF pairs = <<>> THEN <<>> ELSE Lit(" ") \o Join(pairs, Lit(" ")))

\* one token per piece of text: the same characters, whatever the pieces
RECURSIVE Flat(_)
Flat(s) == IF s = <<>> THEN "" ELSE s[1] \o Flat(Tail(s))

C3_Resolves(sel, mapping, backing) ==
  /\ sel # None
  /\ sel[1] < Len(mapping)
  /\ mapping[sel[1] + 1] < Len(backing)

C3_FullySelected ==
  /\ C3_Resolves(ui.repos_state, ui.filtered_repo_indices, data.repos)
  /\ C3_Resolves(ui.branches_state, ui.filtered_branch_indices, data.branches)
  /\ C3_Resolves(ui.workflows_state, ui.filtered_workflow_indices, data.workflows)

C4_AlwaysPrompts ==
  EveryStep(LAMBDA h, key, r :
    (ui.show_confirm_dispatch /\ IsConfirmKey(key)) =>
      /\ ~r.s.ui.show_confirm_dispatch
      /\ r.s.ui.awaiting_log_prompt)

\* C4 amended: 'y'/'Y' in ConfirmDispatch runs the dispatch command and
\* closes the confirmation; when the dispatch succeeds PostDispatchPrompt is
\* active afterwards, when it fails no modal is active and the output is the
\* error "Error dispatching workflow: ..." with the error flag set.
C4_PromptsOnSuccess ==
  EveryStep(LAMBDA h, key, r :
    (ui.show_confirm_dispatch /\ IsConfirmKey(key)) =>
      /\ Len(r.s.gh) = 1
      /\ ~r.s.ui.show_confirm_dispatch
      /\ IF r.err = <<>>
         THEN /\ ActiveModals(r.s.ui) = {"awaiting_log_prompt"}
              /\ ~r.s.ui.output_is_error
         ELSE /\ ActiveModals(r.s.ui) = {}
              /\ r.s.ui.output_is_error
              /\ r.s.ui.output = Lit("Error dispatching workflow: ") \o r.err)

\* C4 happens: a confirmed dispatch has failed.
C4_DispatchFailed ==
  /\ ui.output # <<>>
  /\ ui.output[1] = "Error dispatching workflow: "
  /\ ui.output_is_error
  /\ ActiveModals(ui) = {}

\* C5: in ConfirmDispatch a key other than 'y'/'Y' runs no command, leaves
\* no modal active, and leaves the focus, the list selections, the mappings
\* and the input field values as they were.
C5_OtherKeysCancel ==
  EveryStep(LAMBDA h, key, r :
    (ui.show_confirm_dispatch /\ ~IsConfirmKey(key)) =>
      /\ r.s.gh = <<>>
      /\ r.s.logs = <<>>
      /\ r.s.disk = disk
      /\ ActiveModals(r.s.ui) = {}
      /\ r.s.ui.focus = ui.focus
      /\ r.s.ui.repos_state = ui.repos_state
      /\ r.s.ui.branches_state = ui.branches_state
      /\ r.s.ui.workflows_state = ui.workflows_state
      /\ r.s.ui.filtered_repo_indices = ui.filtered_repo_indices
      /\ r.s.ui.filtered_branch_indices = ui.filtered_branch_indices
      /\ r.s.ui.filtered_workflow_indices = ui.filtered_workflow_indices
      /\ r.s.data = data)

\* C5 happens: a confirmation has been cancelled.
C5_Cancelled ==
  /\ ui.output = Lit("Dispatch cancelled.")
  /\ ui.dispatch_command_preview # <<>>
  /\ ActiveModals(ui) = {}

\* C6: a key event received while a modal is active does not change the
\* focused panel or the selected position of the Repositories, Branches or
\* Workflows panel, does not start a search and does not leave the loop.
C6_ModalOwnsKeys ==
  EveryStep(LAMBDA h, key, r :
    ActiveModals(ui) # {} =>
      /\ h \notin {"base", "search"}
      /\ r.s.ui.focus = ui.focus
      /\ r.s.ui.repos_state = ui.repos_state
      /\ r.s.ui.branches_state = ui.branches_state
      /\ r.s.ui.workflows_state = ui.workflows_state
      /\ r.s.ui.search_active => ui.search_active
      /\ ~r.exit)

\* C6 happens: keys were handled inside a modal opened away from the first
\* panel.
C6_KeysInsideModal ==
  /\ ui.show_inputs_popup
  /\ ui.input_fields_selected = 1
  /\ ui.focus # "Repo"

\* C7: a key other than Tab/BackTab changes the focus only as a successful
\* Enter on Repositories, Branches or Workflows, which advances it one step;
\* a failed one (nothing selected, or the fetch fails) leaves it unchanged.
C7_FocusOnlyOnSuccess ==
  EveryStep(LAMBDA h, key, r :
    IF h = "base" /\ key.code = "Enter" /\ ui.focus \in {"Repo", "Branches", "Workflows"}
    THEN r.s.ui.focus = (IF r.err = <<>> THEN FocusNext(ui.focus) ELSE ui.focus)
    ELSE (h = "base" /\ key.code \in {"Tab", "BackTab"}) \/ r.s.ui.focus = ui.focus)

\* C8: when a selection lookup or a collaborator call fails in a handler, the
\* state after the handler has the error flag set and an Output that
\* contains the error's text.
C8_ErrorsReported ==
  EveryStep(LAMBDA h, key, r :
    r.err # <<>> => (r.s.ui.output_is_error /\ Contains(r.s.ui.output, r.err)))

C9_Valid(sel, mapping) ==
  IF mapping = <<>> THEN sel = None ELSE sel # None /\ sel[1] < Len(mapping)

\* C9: in every reachable state, the initial one included, the selected
\* position of each of the three panels is None when the panel's mapping is
\* empty and a valid index into the mapping otherwise.
C9_SelectionValid ==
  /\ C9_Valid(ui.repos_state, ui.filtered_repo_indices)
  /\ C9_Valid(ui.branches_state, ui.filtered_branch_indices)
  /\ C9_Valid(ui.workflows_state, ui.filtered_workflow_indices)

C10_InRange(sel, mapping, resolved, backing) ==
  /\ (sel = None \/ sel[1] >= Len(mapping)) => resolved = None
  /\ resolved = None \/ resolved[1] < Len(backing)

\* C10: in every reachable state, resolving the selected repository, branch
\* or workflow yields no selection (when the position is None or not below
\* the mapping's length) or an index below the length of the backing
\* collection, and no handler has indexed past the end of one.
C10_ResolutionInRange ==
  /\ loop # "panic"
  /\ C10_InRange(ui.repos_state, ui.filtered_repo_indices,
                 selected_repo_real_index(Now), data.repos)
  /\ C10_InRange(ui.branches_state, ui.filtered_branch_indices,
                 selected_branch_real_index(Now), data.branches)
  /\ C10_InRange(ui.workflows_state, ui.filtered_workflow_indices,
                 selected_workflow_real_index(Now), data.workflows)

\* C10 happens: a selection is resolved through a filtered, reordered
\* mapping.
C10_ResolvedThroughFilter ==
  /\ ui.filtered_branch_indices = <<1, 0>>
  /\ ui.branches_state = Some(1)
  /\ ui.search_query # <<>>

\* the focused panel's backing labels, mapping and selection
FocusedLabelsOf(d, u) ==
  CASE u.focus = "Repo" -> d.repos
    [] u.focus = "Branches" -> d.branches
    [] u.focus = "Workflows" -> d.workflows
    [] OTHER -> <<>>

FocusedLabels == FocusedLabelsOf(data, ui)

FocusedMapping(u) ==
  CASE u.focus = "Repo" -> u.filtered_repo_indices
    [] u.focus = "Branches" -> u.filtered_branch_indices
    [] u.focus = "Workflows" -> u.filtered_workflow_indices
    [] OTHER -> <<>>

FocusedSelection(u) ==
  CASE u.focus = "Repo" -> u.repos_state
    [] u.focus = "Branches" -> u.branches_state
    [] u.focus = "Workflows" -> u.workflows_state
    [] OTHER -> None

\* m is the filter result C11 describes for labels and query
C11_IsFilterResult(m, labels, query) ==
  LET score(i) == fuzzy_match(labels[i + 1], query) IN
  /\ \A j, k \in 1..Len(m) : j # k => m[j] # m[k]
  /\ \A k \in 1..Len(m) : m[k] >= 0 /\ m[k] < Len(labels)
  /\ \A i \in 0..(Len(labels) - 1) :
       (\E k \in 1..Len(m) : m[k] = i) <=> (query = <<>> \/ IsSome(score(i)))
  /\ query = <<>> => m = Range0(Len(labels))
  /\ query # <<>> =>
       \A k \in 1..(Len(m) - 1) :
         \/ score(m[k])[1] > score(m[k + 1])[1]
         \/ score(m[k])[1] = score(m[k + 1])[1] /\ m[k] < m[k + 1]

C11_Main == <<"m", "a", "i", "n">>
C11_Dev == <<"d", "e", "v">>
C11_FeatureX == <<"f", "e", "a", "t", "u", "r", "e", "-", "x">>

\* C11: update_search_filter leaves on the focused panel a mapping without
\* duplicates, within [0, len), holding exactly the indices whose label
\* matches (all, in order, for the empty query), ordered by descending score
\* with ties in backing order, and selects position 0 when the mapping is
\* non-empty and None otherwise; ["main","dev","feature-x"] with "fe" gives
\* mapping [2].
C11_FilterCorrect ==
  /\ loop = "filtered" =>
       /\ C11_IsFilterResult(FocusedMapping(ui), FocusedLabels, ui.search_query)
       /\ FocusedSelection(ui) = (IF FocusedMapping(ui) = <<>> THEN None ELSE Some(0))
  /\ FilterIndices(<<C11_Main, C11_Dev, C11_FeatureX>>, <<"f", "e">>) = <<2>>

\* C11 happens: the filter put later labels first and kept two labels of
\* equal score in backing order.
C11_FilteredReorderedTie ==
  /\ loop = "filtered"
  /\ ui.focus = "Branches"
  /\ data.branches = <<<<"b", "a">>, <<"a", "b">>, <<"a", "c">>>>
  /\ ui.search_query = <<"a">>
  /\ ui.filtered_branch_indices = <<1, 2, 0>>

\* C12: after every event that changes the query buffer, the focused panel's
\* mapping is the filter result of the new buffer over the backing collection
\* (the identity when the buffer is empty).
C12_MappingFollowsQuery ==
  EveryStep(LAMBDA h, key, r :
    r.s.ui.search_query # ui.search_query =>
      FocusedMapping(r.s.ui)
        = FilterIndices(FocusedLabelsOf(r.s.data, r.s.ui), r.s.ui.search_query))

\* C13 as stated: '?' makes Help active from every modal state, and '?' while
\* Help is active leaves no modal active.
C13_HelpFromAnywhere ==
  EveryStep(LAMBDA h, key, r :
    IsChar(key, "?") =>
      IF ui.show_help_popup THEN ActiveModals(r.s.ui) = {}
      ELSE r.s.ui.show_help_popup)

\* C13 amended: '?' opens Help when no modal is active and no search is
\* being typed; while another modal is active '?' goes to that modal and
\* Help stays closed; '?' while Help is active leaves no modal active.
C13_HelpFromNone ==
  EveryStep(LAMBDA h, key, r :
    IsChar(key, "?") =>
      CASE h = "base" -> ActiveModals(r.s.ui) = {"show_help_popup"}
        [] h = "help" -> ActiveModals(r.s.ui) = {}
        [] h = "search" -> TRUE
        [] OTHER -> ~r.s.ui.show_help_popup)

\* C13 happens: Help was opened over a session that had moved on from the
\* first panel.
C13_HelpOpen ==
  /\ ActiveModals(ui) = {"show_help_popup"}
  /\ ui.focus # "Repo"

C14_LoadedWithInputs(h, key, r) ==
  /\ h = "base"
  /\ key.code = "Enter"
  /\ ui.focus = "Workflows"
  /\ r.err = <<>>
  /\ r.s.data.input_fields # <<>>

\* C14 as stated: Enter on Workflows whose workflow loads with a declared
\* input makes the Inputs modal active.
C14_EnterOpensInputs ==
  EveryStep(LAMBDA h, key, r :
    C14_LoadedWithInputs(h, key, r) => r.s.ui.show_inputs_popup)

\* C14 amended: Enter on Workflows whose workflow loads with a declared input
\* opens no modal: the fields are stored, the focus moves to Inputs and the
\* output lists the inputs and points to 'i'; from no modal, 'i' with a field
\* loaded makes the Inputs modal active on the first field, not editing.
C14_EditKeyOpensInputs ==
  EveryStep(LAMBDA h, key, r :
    /\ C14_LoadedWithInputs(h, key, r) =>
         /\ ActiveModals(r.s.ui) = {}
         /\ r.s.ui.focus = "Inputs"
         /\ r.s.ui.output[1] = "Inputs for '"
         /\ r.s.ui.output[Len(r.s.ui.output)] = "\n\nPress 'i' to edit inputs and dispatch."
    /\ (h = "base" /\ IsChar(key, "i") /\ data.input_fields # <<>>) =>
         /\ ActiveModals(r.s.ui) = {"show_inputs_popup"}
         /\ r.s.ui.input_fields_selected = 0
         /\ ~r.s.ui.input_fields_editing)

\* C14 happens: a workflow was loaded with inputs and no modal opened.
C14_InputsLoaded ==
  /\ ActiveModals(ui) = {}
  /\ ui.focus = "Inputs"
  /\ data.input_fields # <<>>
  /\ ui.output[1] = "Inputs for '"

IsLogsKey(key) == IsChar(key, "l") \/ IsChar(key, "L")

\* C15: the post-dispatch prompt stays the active modal across every 'view
\* logs' key, whether the logs are fetched, the fetch fails or the run lookup
\* gives up after its retries; the failure is reported with the retry hint.
C15_PromptSurvivesLogs ==
  EveryStep(LAMBDA h, key, r :
    (h = "log_prompt" /\ IsLogsKey(key)) =>
      /\ ActiveModals(r.s.ui) = {"awaiting_log_prompt"}
      /\ ~r.s.panic /\ ~r.exit
      /\ r.s.ui.output_is_error = (r.err # <<>>)
      /\ r.err # <<>> =>
           /\ r.s.ui.output[1] = "Error fetching logs: "
           /\ r.s.ui.output[Len(r.s.ui.output)]
                = "\n\nPress 'l' to retry, 'v' to open in browser, or any other key to dismiss.")

\* C15 happens: a log fetch has failed and the prompt is still up.
C15_PromptAfterFailedFetch ==
  /\ ActiveModals(ui) = {"awaiting_log_prompt"}
  /\ ui.output_is_error
  /\ ui.output[1] = "Error fetching logs: "

\* C16: in the post-dispatch prompt the 'view logs' key and the 'open in
\* browser' key keep the prompt active, and every other key leaves no modal
\* active.
C16_OnlyOtherKeysExit ==
  EveryStep(LAMBDA h, key, r :
    h = "log_prompt" =>
      IF IsLogsKey(key) \/ IsChar(key, "v")
      THEN ActiveModals(r.s.ui) = {"awaiting_log_prompt"}
      ELSE ActiveModals(r.s.ui) = {})

\* C17: the presets popup is active only over a non-empty preset list with a
\* valid selected index; 'r' opens it exactly when the selected repository
\* has a saved preset, and otherwise opens nothing and sets a message that is
\* not an error.
C17_ReplaysValid ==
  /\ ui.show_replays_popup =>
       /\ data.replays_list # <<>>
       /\ IsSome(ui.replays_state)
       /\ Unwrap(ui.replays_state) \in 0..(Len(data.replays_list) - 1)
  /\ EveryStep(LAMBDA h, key, r :
       (h = "base" /\ IsChar(key, "r") /\ IsSome(selected_repo_real_index(Now))) =>
         IF StoredReplays(Now) > 0
         THEN /\ ActiveModals(r.s.ui) = {"show_replays_popup"}
              /\ Len(r.s.data.replays_list) = StoredReplays(Now)
              /\ r.s.ui.replays_state = Some(0)
         ELSE /\ ActiveModals(r.s.ui) = {}
              /\ ~r.s.ui.output_is_error
              /\ r.s.ui.output[1] = "No saved replays for '")

\* C17 happens: the last of two presets was deleted in the popup, which
\* stays open on the one that remains.
C17_DeletedLastOfTwo ==
  /\ ui.show_replays_popup
  /\ ui.output[1] = "Deleted replay '"
  /\ Len(data.replays_list) = 1
  /\ ui.replays_state = Some(0)
  /\ data.replays_list[1] = Replay1

IsRunOrDelete(key) == key.code = "Enter" \/ IsChar(key, "d")

C19_Refusal == Lit("Both owner and repo fields are required.")

\* C19: Enter in the add-repository popup with the owner or the name empty
\* changes nothing but the output, whatever the collaborators would have
\* answered: no repository is fetched, added or saved, the popup stays the
\* active modal with both buffers and the field focus as they were, and the
\* output is the refusal with the error flag set.
C19_EmptyFieldRefused ==
  EveryStep(LAMBDA h, key, r :
    (h = "add_repo" /\ key.code = "Enter"
       /\ (ui.add_repo_owner = <<>> \/ ui.add_repo_name = <<>>)) =>
      /\ r.s = [Now EXCEPT !.ui.output = C19_Refusal, !.ui.output_is_error = TRUE]
      /\ r.s.data.repos = data.repos
      /\ r.s.disk = disk
      /\ ActiveModals(r.s.ui) = {"show_add_repo_popup"}
      /\ r.s.ui.add_repo_owner = ui.add_repo_owner
      /\ r.s.ui.add_repo_name = ui.add_repo_name
      /\ r.s.ui.add_repo_focus_owner = ui.add_repo_focus_owner
      /\ ~r.exit)

\* C19 happens: a submission with the owner typed and the name empty was
\* refused while the name field had the focus.
C19_RefusedWithOwnerTyped ==
  /\ ActiveModals(ui) = {"show_add_repo_popup"}
  /\ ui.output = C19_Refusal
  /\ ui.output_is_error
  /\ ui.add_repo_owner # <<>>
  /\ ui.add_repo_name = <<>>
  /\ ~ui.add_repo_focus_owner

C20_Submitted(key) ==
  key.code = "Enter" /\ ui.add_repo_owner # <<>> /\ ui.add_repo_name # <<>>

\* C20 as stated: the add-repository popup becomes inactive only on Esc or
\* on a submission that adds the repository; a submission with both fields
\* typed whose fetch or save fails leaves it active.
C20_ClosesOnlyOnSuccess ==
  EveryStep(LAMBDA h, key, r :
    h = "add_repo" =>
      (~r.s.ui.show_add_repo_popup
         <=> (key.code = "Esc" \/ (C20_Submitted(key) /\ r.err = <<>>))))

\* C20 amended: the add-repository popup becomes inactive only on Esc or on
\* a submission with both fields typed, whether or not the repository is
\* added; a submission whose fetch or save fails closes the popup, clears the
\* form and reports "Error adding repo: " and the error with the error flag
\* set; every other key keeps the popup active.
C20_ClosesOnSubmission ==
  EveryStep(LAMBDA h, key, r :
    h = "add_repo" =>
      /\ ~r.s.panic
      /\ IF key.code = "Esc" \/ C20_Submitted(key)
         THEN /\ ActiveModals(r.s.ui) = {}
              /\ r.s.ui.add_repo_owner = <<>>
              /\ r.s.ui.add_repo_name = <<>>
              /\ r.s.ui.add_repo_focus_owner
         ELSE ActiveModals(r.s.ui) = {"show_add_repo_popup"}
      /\ (C20_Submitted(key) /\ r.err # <<>>) =>
           /\ r.s.ui.output = Lit("Error adding repo: ") \o r.err
           /\ r.s.ui.output_is_error
      /\ (C20_Submitted(key) /\ r.err = <<>>) =>
           /\ ~r.s.ui.output_is_error
           /\ r.s.data.repos
                = Append(data.repos, ui.add_repo_owner \o Lit("/") \o ui.add_repo_name))

\* C20 happens: a submission failed after the repository had been added in
\* memory (the save failed), and the popup is closed.
C20_SaveFailedClosed ==
  /\ ActiveModals(ui) = {}
  /\ ui.output_is_error
  /\ ui.output[1] = "Error adding repo: "
  /\ data.repos # <<>>
  /\ disk = <<>>

Elems(v) == {v[k] : k \in 1..Len(v)}

BoolLits == {StrTrue, StrFalse}

\* the fields before and after a key typed into the inputs popup
FieldsKept(r) == Len(r.s.data.input_fields) = Len(data.input_fields)

\* C21: in the inputs popup a boolean field that holds "true" or "false"
\* holds one of the two after every key; a character key while editing the
\* field flips it, and Backspace leaves it as it is.
C21_BooleanStaysLiteral ==
  EveryStep(LAMBDA h, key, r :
    h = "inputs" =>
      /\ FieldsKept(r)
      /\ \A k \in 1..Len(data.input_fields) :
           LET f == data.input_fields[k]
               g == r.s.data.input_fields[k]
           IN  (f.input_type = "boolean" /\ f.value \in BoolLits) =>
                 /\ g.value \in BoolLits
                 /\ (key.code = "Char" /\ ui.input_fields_editing
                       /\ ui.input_fields_selected = k - 1) =>
                      g.value = IF f.value = StrTrue THEN StrFalse ELSE StrTrue
                 /\ key.code = "Backspace" => g.value = f.value)

IsChoice(f) == f.input_type = "choice" /\ f.options # <<>>

\* C22 as stated: every choice field with options holds one of its options
\* in every state, from the load on, and character keys and Backspace never
\* change a choice field.
C22_ChoiceValueInSet ==
  /\ \A k \in 1..Len(data.input_fields) :
       IsChoice(data.input_fields[k]) =>
         data.input_fields[k].value \in Elems(data.input_fields[k].options)
  /\ EveryStep(LAMBDA h, key, r :
       (h = "inputs" /\ key.code \in {"Char", "Backspace"}) =>
         \A k \in 1..Len(data.input_fields) :
           data.input_fields[k].input_type = "choice" =>
             r.s.data.input_fields[k].value = data.input_fields[k].value)

\* C22 amended: every choice field with options holds one of its options or
\* the value it was loaded with (the declared default, or the empty string
\* when none is declared), which need not be an option; a cycle key on the
\* field puts an option there, a field that holds an option holds one after
\* every key of the popup, and character keys and Backspace never change a
\* choice field.
C22_ChoiceValueInSetOrDefault ==
  /\ \A k \in 1..Len(data.input_fields) :
       LET f == data.input_fields[k] IN
       IsChoice(f) => f.value \in Elems(f.options) \cup {f.default_value}
  /\ EveryStep(LAMBDA h, key, r :
       h = "inputs" =>
         /\ FieldsKept(r)
         /\ \A k \in 1..Len(data.input_fields) :
              LET f == data.input_fields[k]
                  g == r.s.data.input_fields[k]
              IN  /\ (f.input_type = "choice" /\ key.code \in {"Char", "Backspace"}) =>
                       g.value = f.value
                  /\ (IsChoice(f) /\ f.value \in Elems(f.options)) =>
                       g.value \in Elems(f.options)
                  /\ (IsChoice(f) /\ key.code \in {"Tab", "BackTab"}
                        /\ ui.input_fields_selected = k - 1) =>
                       g.value \in Elems(f.options))

\* C22 happens: a choice field declared with a default outside its options
\* was cycled and holds an option, while being edited.
C22_CycledIntoSet ==
  /\ ui.show_inputs_popup
  /\ ui.input_fields_editing
  /\ \E k \in 1..Len(data.input_fields) :
       LET f == data.input_fields[k] IN
       /\ IsChoice(f)
       /\ f.default_value \notin Elems(f.options)
       /\ f.value \in Elems(f.options)

\* the value of the field under the cursor
SelectedValue(s) == Unwrap(SelectedField(s)).value

\* C23: on a choice field that holds one of its options Tab puts the next
\* option there and BackTab the previous one, both wrapping, and change
\* nothing else (the popup stays browsing or editing as it was); Tab then
\* BackTab, and BackTab then Tab, restore the state; with options dev,
\* staging, prod at staging, Tab gives prod and Tab again dev.
C23_CycleWraps ==
  EveryStep(LAMBDA h, key, r :
    (h = "inputs" /\ IsSome(SelectedField(Now)) /\ IsChoice(Unwrap(SelectedField(Now)))
       /\ SelectedValue(Now) \in Elems(Unwrap(SelectedField(Now)).options)) =>
      LET o == Unwrap(SelectedField(Now)).options
          n == Len(o)
          i == CHOOSE k \in 1..n : o[k] = SelectedValue(Now)
      IN  /\ key.code = "Tab" => r.s = SetFieldValue(Now, o[(i % n) + 1])
          /\ key.code = "BackTab" => r.s = SetFieldValue(Now, o[((i + n - 2) % n) + 1])
          /\ CycleBackward(CycleForward(Now)) = Now
          /\ CycleForward(CycleBackward(Now)) = Now
          /\ (o = Options3 /\ SelectedValue(Now) = Lit("staging")) =>
               /\ SelectedValue(CycleForward(Now)) = Lit("prod")
               /\ SelectedValue(CycleForward(CycleForward(Now))) = Lit("dev"))

\* C23 happens: while editing, the choice declared with default staging was
\* cycled to dev, past the last option.
C23_WrappedWhileEditing ==
  /\ ui.show_inputs_popup
  /\ ui.input_fields_editing
  /\ IsSome(SelectedField(Now))
  /\ IsChoice(Unwrap(SelectedField(Now)))
  /\ Unwrap(SelectedField(Now)).default_value = Lit("staging")
  /\ SelectedValue(Now) = Lit("dev")

\* C24: in the inputs popup, browsing, Enter starts editing exactly when the
\* field under the cursor is not a choice.
C24_ChoiceNotEdited ==
  EveryStep(LAMBDA h, key, r :
    (h = "inputs" /\ ~ui.input_fields_editing /\ key.code = "Enter"
       /\ IsSome(SelectedField(Now))) =>
      (r.s.ui.input_fields_editing
         <=> Unwrap(SelectedField(Now)).input_type # "choice"))

IsSaveKey(h, key) == h = "inputs" /\ IsChar(key, "S") /\ ~ui.input_fields_editing

SomeValue == \E k \in 1..Len(data.input_fields) : data.input_fields[k].value # <<>>

\* name=value of each pair, joined with ", "
RECURSIVE C25_Described(_)
C25_Described(pairs) ==
  IF pairs = <<>> THEN ""
  ELSE Flat(pairs[1].name) \o "=" \o Flat(pairs[1].value)
         \o (IF Len(pairs) = 1 THEN "" ELSE ", " \o C25_Described(Tail(pairs)))

\* the preset 'S' is to store: the selected workflow and the fields with a
\* value, in field order
C25_Captured(preset) ==
  LET kept == SelectSeq(data.input_fields, LAMBDA f : f.value # <<>>) IN
  /\ preset.workflow = data.workflows[Unwrap(selected_workflow_real_index(Now)) + 1]
  /\ Len(preset.inputs) = Len(kept)
  /\ \A k \in 1..Len(kept) :
       preset.inputs[k] = [name |-> kept[k].name, value |-> kept[k].value]
  /\ Flat(preset.description) = C25_Described(preset.inputs)

\* the store after the step is the store before it with one preset added at
\* the end of the selected repository's presets
C25_OneAppended(r) ==
  /\ Len(r.s.disk) = Len(disk)
  /\ \E at \in 1..Len(disk) :
       /\ disk[at].name = data.repos[Unwrap(selected_repo_real_index(Now)) + 1]
       /\ \A k \in 1..Len(disk) : k # at => r.s.disk[k] = disk[k]
       /\ r.s.disk[at].name = disk[at].name
       /\ Len(r.s.disk[at].replays) = Len(disk[at].replays) + 1
       /\ SubSeq(r.s.disk[at].replays, 1, Len(disk[at].replays)) = disk[at].replays
       /\ C25_Captured(r.s.disk[at].replays[Len(disk[at].replays) + 1])

C26_EmptySaveRefused ==
  EveryStep(LAMBDA h, key, r :
    (IsSaveKey(h, key) /\ ~SomeValue) =>
      /\ r.err # <<>>
      /\ r.s = [Now EXCEPT !.ui.output = Lit("Error saving replay: ") \o r.err,
                           !.ui.output_is_error = TRUE]
      /\ r.s.disk = disk
      /\ r.s.data.input_fields = data.input_fields
      /\ r.s.ui.input_fields_selected = ui.input_fields_selected
      /\ ActiveModals(r.s.ui) = {"show_inputs_popup"}
      /\ ~r.s.ui.input_fields_editing)

\* C26 happens: a save was refused over two fields without a value, the
\* cursor on the second.
C26_RefusedOnEmptyFields ==
  /\ ActiveModals(ui) = {"show_inputs_popup"}
  /\ ui.output_is_error
  /\ ui.output[1] = "Error saving replay: "
  /\ ui.output[2] = "No inputs to save - workflows without inputs don't need replays."
  /\ Len(data.input_fields) = 2
  /\ ~SomeValue
  /\ ui.input_fields_selected = 1
  /\ disk[1].replays = <<>>

\* a dispatch requested with 'D' in the inputs popup or with Enter on the
\* Inputs panel
IsDispatchRequest(h, key) ==
  \/ h = "inputs" /\ IsChar(key, "D") /\ ~ui.input_fields_editing
  \/ h = "base" /\ key.code = "Enter" /\ ui.focus = "Inputs"

\* C27: a dispatch request refused for want of a repository, a branch or a
\* workflow reports the error and changes nothing else: the focus and the
\* active modal are what they were.
C27_RefusalChangesNothing ==
  EveryStep(LAMBDA h, key, r :
    (IsDispatchRequest(h, key) /\ r.err # <<>>) =>
      /\ r.s.ui.output_is_error
      /\ r.s.ui.output = Lit("Error: ") \o r.err
      /\ r.s.ui.focus = ui.focus
      /\ ActiveModals(r.s.ui) = ActiveModals(ui))

RECURSIVE C28_Pairs(_)
\* -f name=value for each captured pair, in saved order
C28_Pairs(inputs) ==
  IF inputs = <<>> THEN <<>>
  ELSE <<"-f", Flat(inputs[1].name) \o "=" \o Flat(inputs[1].value)>>
         \o C28_Pairs(Tail(inputs))

\* C28: Enter in the presets popup runs one gh command: the preset's
\* workflow on the selected repository and the branch selected now, then
\* every captured pair as saved; with no branch selected nothing is run and
\* the refusal is reported as an error.
C28_ReplayRuns ==
  EveryStep(LAMBDA h, key, r :
    (h = "replays" /\ key.code = "Enter" /\ IsSome(ui.replays_state)
       /\ IsSome(selected_repo_real_index(Now))) =>
      LET replay == data.replays_list[Unwrap(ui.replays_state) + 1]
          repo == data.repos[Unwrap(selected_repo_real_index(Now)) + 1]
          bsel == selected_branch_real_index(Now)
      IN  IF IsSome(bsel)
          THEN /\ Len(r.s.gh) = 1
               /\ [k \in 1..Len(r.s.gh[1]) |-> Flat(r.s.gh[1][k])]
                    = <<"workflow", "run", Flat(replay.workflow), "--repo", Flat(repo),
                        "--ref", Flat(data.branches[Unwrap(bsel) + 1])>>
                        \o C28_Pairs(replay.inputs)
          ELSE /\ r.s.gh = <<>>
               /\ r.err = Lit("No branch selected.")
               /\ r.s.ui.output_is_error
               /\ r.s.ui.output = Lit("Error running replay: ") \o r.err
               /\ r.s.disk = disk)

\* C28 happens: the preset of two pairs was run on the branch selected, and
\* the command reported holds both pairs in saved order.
C28_RanTwoPairs ==
  /\ ui.awaiting_log_prompt
  /\ ui.output[1] = "(check) Replay dispatched!\n\nCommand:\n  "
  /\ Contains(ui.output, Lit("--ref") \o Lit(" ") \o BranchB \o Lit(" ") \o Lit("-f") \o Lit(" ")
                           \o Lit("env") \o Lit("=") \o Lit("prod") \o Lit(" ") \o Lit("-f")
                           \o Lit(" ") \o Lit("tag") \o Lit("=") \o <<"a">>)

FocusOrder == <<"Repo", "Branches", "Workflows", "Inputs", "Output">>

\* C29: with no modal and no search, Tab moves the focus one panel along
\* Repositories, Branches, Workflows, Inputs, Output and round again,
\* BackTab one panel back, and neither changes anything else; each undoes
\* the other and five of either return to the panel they started from.
C29_FocusCycle ==
  EveryStep(LAMBDA h, key, r :
    (h = "base" /\ key.code \in {"Tab", "BackTab"}) =>
      LET at == CHOOSE k \in 1..5 : FocusOrder[k] = ui.focus
          f == ui.focus
      IN  /\ key.code = "Tab" => r.s = [Now EXCEPT !.ui.focus = FocusOrder[(at % 5) + 1]]
          /\ key.code = "BackTab" => r.s = [Now EXCEPT !.ui.focus = FocusOrder[((at + 3) % 5) + 1]]
          /\ FocusPrevious(FocusNext(f)) = f
          /\ FocusNext(FocusPrevious(f)) = f
          /\ FocusNext(FocusNext(FocusNext(FocusNext(FocusNext(f))))) = f
          /\ FocusPrevious(FocusPrevious(FocusPrevious(FocusPrevious(FocusPrevious(f))))) = f
          /\ ~r.exit /\ r.err = <<>>)

\* C29 happens: the focus was moved to the Output panel of a session that
\* has not activated anything yet.
C29_TabbedToOutput ==
  /\ ui.focus = "Output"
  /\ ActiveModals(ui) = {}
  /\ ~ui.search_active
  /\ ui.output = NewUi(disk).output
  /\ data.branches = <<>>

\* C30: a step that changes the selected repository or the selected branch
\* replaces the workflow collection (by a fetch for the new selection, or by
\* emptying it).
C30_WorkflowsFollowSelection ==
  EveryStep(LAMBDA h, key, r :
    (\/ selected_repo_real_index(r.s) # selected_repo_real_index(Now)
     \/ selected_branch_real_index(r.s) # selected_branch_real_index(Now)) =>
      \/ h = "base" /\ key.code = "Enter" /\ r.err = <<>>
      \/ r.s.data.workflows = <<>>)

\* C31: whenever no modal is active the add-repo owner and name buffers are
\* empty and the edit-in-progress flag of the field editor is false; the
\* edit-in-progress flag is true only while the Inputs modal is active.
C31_TransientsClear ==
  /\ ActiveModals(ui) = {} =>
       /\ ui.add_repo_owner = <<>>
       /\ ui.add_repo_name = <<>>
       /\ ~ui.input_fields_editing
  /\ ui.input_fields_editing => ui.show_inputs_popup

\* the add-repo popup is closed after an owner and a name were submitted from
\* it, and both buffers are empty again
C31_ClosedAfterSubmission ==
  /\ ActiveModals(ui) = {}
  /\ ui.output # <<>> /\ ui.output[1] \in {"Error adding repo: ", "Added repo '"}
  /\ ui.add_repo_owner = <<>> /\ ui.add_repo_name = <<>>

\* C32: while the Inputs modal is active the selected-field index is below
\* the field count; in Browsing 'next' from the last field wraps to index 0
\* and 'previous' from index 0 wraps to the last field; in Editing no key
\* changes the selected-field index.
C32_IndexValid ==
  /\ ui.show_inputs_popup => ui.input_fields_selected < Len(data.input_fields)
  /\ EveryStep(LAMBDA h, key, r :
       h = "inputs" =>
         LET n == Len(data.input_fields)
             sel == ui.input_fields_selected
             after == r.s.ui.input_fields_selected
         IN
         /\ (~ui.input_fields_editing /\ (IsChar(key, "j") \/ key.code = "Down")) =>
              after = IF sel = n - 1 THEN 0 ELSE sel + 1
         /\ (~ui.input_fields_editing /\ (IsChar(key, "k") \/ key.code = "Up")) =>
              after = IF sel = 0 THEN n - 1 ELSE sel - 1
         /\ ui.input_fields_editing => after = sel)

\* the second of two fields is being edited: 'j' would wrap from it in
\* Browsing and must not move in Editing
C32_EditingLastField ==
  /\ ui.show_inputs_popup
  /\ ui.input_fields_editing
  /\ Len(data.input_fields) = 2
  /\ ui.input_fields_selected = 1

\* C33: in Editing both Enter and Esc return to Browsing, leave every field's
\* value as typed and keep the Inputs modal active; Esc closes the Inputs
\* modal only when pressed in Browsing.
C33_LeaveEditing ==
  EveryStep(LAMBDA h, key, r :
    (h = "inputs" /\ key.code \in {"Enter", "Esc"}) =>
      /\ ui.input_fields_editing =>
           r.s = [Now EXCEPT !.ui.input_fields_editing = FALSE]
      /\ (~ui.input_fields_editing /\ key.code = "Esc") =>
           r.s = [Now EXCEPT !.ui.show_inputs_popup = FALSE]
      /\ ~r.s.ui.show_inputs_popup =>
           ~ui.input_fields_editing /\ key.code = "Esc")

\* a character was typed into a string field and the editor is in Editing:
\* Enter and Esc from here must keep it
C33_TypedWhileEditing ==
  /\ ui.show_inputs_popup
  /\ ui.input_fields_editing
  /\ \E f \in Elems(data.input_fields) :
       f.input_type = "string" /\ f.value = Append(f.default_value, "a")

\* C34: Esc while search is active makes search inactive, empties the query
\* buffer, resets the mappings of all three panels to the identity over
\* their backing collections and selects position 0 on the focused panel if
\* its backing collection is non-empty and None otherwise; it does not quit
\* the event loop.
C34_CancelRestores ==
  EveryStep(LAMBDA h, key, r :
    (h = "search" /\ key.code = "Esc") =>
      /\ ~r.s.ui.search_active
      /\ r.s.ui.search_query = <<>>
      /\ r.s.ui.filtered_repo_indices = Range0(Len(data.repos))
      /\ r.s.ui.filtered_branch_indices = Range0(Len(data.branches))
      /\ r.s.ui.filtered_workflow_indices = Range0(Len(data.workflows))
      /\ r.s.data = data
      /\ FocusedSelection(r.s.ui) = IF FocusedLabels = <<>> THEN None ELSE Some(0)
      /\ r.s.ui.focus = ui.focus
      /\ ~r.exit)

\* a search is open on the Branches or Workflows panel while the
\* Repositories panel still shows a confirmed filter that hides a
\* repository: Esc from here has a second panel's mapping to restore
C34_SearchOverConfirmedFilter ==
  /\ ui.search_active
  /\ ui.focus \in {"Branches", "Workflows"}
  /\ Len(ui.filtered_repo_indices) < Len(data.repos)

C35_FilterIdempotent ==
  /\ update_search_filter(update_search_filter(Now)) = update_search_filter(Now)
  /\ loop = "filtered" =>
       /\ FocusedMapping(update_search_filter(Now).ui) = FocusedMapping(ui)
       /\ FocusedSelection(update_search_filter(Now).ui) = FocusedSelection(ui)
       /\ update_search_filter(Now).ui = ui

\* the first run left a mapping that hides some labels, reorders the rest and
\* is not empty: the second run starts from a mapping that is not the
\* identity
C35_FilteredToPart ==
  /\ loop = "filtered"
  /\ ui.focus = "Workflows"
  /\ Len(data.workflows) = 3
  /\ ui.filtered_workflow_indices = <<2, 1>>

\* C36 (the bounds): at most 5 lookups are made; the 2-second delay has been
\* waited once before every lookup but the first and never after the last;
\* a lookup that found a run id is the last one and its id is the result; a
\* lookup whose command failed is followed by another one unless it was the
\* fifth; and when every lookup made has come back without a run id the
\* function ends only after the fifth, with the "could not find" error.
C36_LookupBounded ==
  LET n == Len(data.lookups) IN
  /\ n <= MaxAttempts
  /\ data.slept = RetryDelay * (IF loop = "list" THEN n ELSE IF n = 0 THEN 0 ELSE n - 1)
  /\ data.slept <= RetryDelay * (MaxAttempts - 1)
  /\ \A k \in 1..n :
       data.lookups[k] = "run" =>
         k = n /\ loop = "done" /\ data.result = Some(RunFound(7))
  /\ \A k \in 1..n :
       (data.lookups[k] = "failed" /\ k < MaxAttempts) => (k < n \/ loop # "done")
  /\ (loop = "done" /\ \A k \in 1..n : data.lookups[k] \in {"failed", "no_run"}) =>
       n = MaxAttempts /\ data.result = Some(Err(CouldNotFind))
  /\ loop = "done" <=> IsSome(data.result)

\* C36: latest-run-id resolution always terminates, after at most 5 lookup
\* attempts and 4 delays of 2 seconds, with the first run id found or, once 5
\* attempts have produced none, with an error; a failed lookup command is a
\* reason to try again.
C36_LookupTerminates == []C36_LookupBounded /\ <>(loop = "done")

\* five lookups came back without a run id, the last two because the command
\* failed, and the function gave up after four delays
C36_GaveUpAfterFive ==
  /\ loop = "done"
  /\ Len(data.lookups) = MaxAttempts
  /\ data.lookups[4] = "failed" /\ data.lookups[5] = "failed"
  /\ data.slept = 8
  /\ data.result = Some(Err(CouldNotFind))

\* the fields load_inputs stores for a workflow of the two-workflow
\* repository (values at their defaults)
C37_LoadedFor(workflow_filename) ==
  fetch_workflow_inputs(WorkflowInputs(DeclaredBy(workflow_filename))).fields

\* C37: whenever ConfirmDispatch is active over loaded input fields, the
\* preview is the command for the selected repository, branch and workflow
\* with the fields that load_inputs loaded for that workflow: fields loaded
\* for one workflow are never previewed for dispatch to another.
C37_PreviewFieldsBelong ==
  (ui.show_confirm_dispatch /\ data.input_fields # <<>>) =>
    LET t == DispatchTarget(Now) IN
    /\ t.ok
    /\ {f.name : f \in Elems(data.input_fields)}
         = {f.name : f \in Elems(C37_LoadedFor(t.workflow))}
    /\ ui.dispatch_command_preview =
         PreviewOf(WorkflowRunArgs(t.workflow, t.repo_name, t.branch)
                     \o FieldArgs(C37_LoadedFor(t.workflow)))

\* ConfirmDispatch is active over the fields of the workflow they were
\* loaded for
C37_ConfirmOverOwnFields ==
  /\ ui.show_confirm_dispatch
  /\ data.input_fields # <<>>
  /\ DispatchTarget(Now).ok
  /\ data.input_fields = C37_LoadedFor(DispatchTarget(Now).workflow)

\* C38: whenever an error is recorded (error flag set, Output message the
\* error text) the Output panel renders that message; and once a workflow
\* was dispatched, a later error or informational message is what the panel
\* renders, not the styled lines of the earlier dispatch.
C38_PanelShowsMessage ==
  /\ ui.output_is_error =>
       OutputPanel(ui).text = ui.output /\ OutputPanel(ui).red
  /\ ui.output # Lit("dispatch_success") => OutputPanel(ui).text = ui.output

\* an error is recorded and the panel renders it, in red
C38_ErrorRendered ==
  /\ ui.output_is_error
  /\ ui.output # <<>> /\ ui.output[1] = "Error: "
  /\ OutputPanel(ui) = [styled |-> FALSE, red |-> TRUE, text |-> ui.output]

\* the workflow named by the command that the "Replay dispatched!" message
\* reports: the text between "gh workflow run " and " --repo"
C39_Replayed(output) ==
  LET p == CHOOSE k \in 1..Len(output) :
             output[k] = "--repo" /\ \A j \in 1..(k - 1) : output[j] # "--repo"
  IN  SubSeq(output, 7, p - 2)

\* C39: after a replay was dispatched, 'view logs' in the prompt it opened
\* looks up the latest run of the workflow the replay dispatched, whatever
\* workflow the Workflows panel selects, and raises no selection error.
C39_LogsOfReplayedWorkflow ==
  EveryStep(LAMBDA h, key, r :
    (h = "log_prompt" /\ IsLogsKey(key) /\ ui.output # <<>>
       /\ ui.output[1] = "(check) Replay dispatched!\n\nCommand:\n  ") =>
      /\ r.err \notin {Lit("No repo selected."), Lit("No workflow selected.")}
      /\ Len(r.s.logs) = 1
      /\ r.s.logs[1].workflow = C39_Replayed(ui.output))

\* the prompt opened by a dispatched replay of the preset saved for
\* workflow "b"
C39_PromptAfterReplay ==
  /\ ui.awaiting_log_prompt
  /\ ui.output # <<>>
  /\ ui.output[1] = "(check) Replay dispatched!\n\nCommand:\n  "
  /\ C39_Replayed(ui.output) = WorkflowC

====
